---------------------------- MODULE Spec2Model ----------------------------
(***************************************************************************)
(* A model of the result cache (text2cypher_cache.py), the query validator *)
(* and rewriter and the self-refinement loop (cypher_validator.py), the    *)
(* stage timer (performance_benchmark.py) and the pipeline that puts them  *)
(* together (EnhancedGraphRAG.forward in graph_rag_enhanced.py).           *)
(*                                                                         *)
(* Text is modelled as a sequence of one-character strings, so that the    *)
(* regular expressions, slices and replacements of the source act on       *)
(* character positions exactly as they do in Python.                       *)
(***************************************************************************)
EXTENDS Integers, Sequences, FiniteSets, TLC

VARIABLES
    \* ---- Text2CypherCache -------------------------------------------------
    max_size,      \* self.max_size
    cache,         \* self.cache, an OrderedDict: sequence of [key, val], first = oldest
    hits,          \* self.hits
    misses,        \* self.misses
    last,          \* history: the last cache call, its arguments and what it returned
    prev,          \* history: the cache call before the last one
    lru,           \* history: the stored keys by time of last access, oldest first
    ncalls,        \* history: number of cache calls made (bounds the exploration)
    get_calls,     \* history: number of get calls since construction or clear
    get_returns,   \* history: number of those that returned an entry
    \* ---- CypherQueryValidator.post_process, applied once and again -------
    raw_query,     \* the text post_process is given
    once,          \* post_process(raw_query), None before the call
    twice,         \* post_process(post_process(raw_query)), None before the call
    pp_pc          \* "start", "once", "twice", or "raised" when a call raised

cacheVars == <<max_size, cache, hits, misses, last, prev, lru, ncalls,
               get_calls, get_returns>>

ppVars == <<raw_query, once, twice, pp_pc>>

VARIABLES
    \* ---- CypherSelfRefinement.refine --------------------------------------
    source_file,     \* which of the two copies of cypher_validator.py runs
    max_attempts,    \* self.max_attempts
    query_arg,       \* the argument query
    repair_fn,       \* whether the caller supplied a repair function
    current_query,   \* the local current_query
    processed_query, \* the local processed_query, None while it is unbound
    error_history,   \* the local error_history
    attempt,         \* the loop variable
    error_msg,       \* the local error_msg of the last validation
    refine_pc,       \* "loop", "validate", "repair", "returned" or "raised"
    refine_ret,      \* what refine returned, None before it returns
    exception,       \* the exception refine raised, "" when none
    verdicts,        \* history: the outcome of each validate_syntax call
    explained,       \* history: the text of the last conn.execute call
    candidate,       \* history: current_query at the start of the last iteration
    repairs,         \* history: number of calls of repair_fn
    heuristics,      \* history: number of calls of _apply_heuristic_repairs
    repair_call      \* history: arguments and result of the last repair_fn call

refineVars == <<source_file, max_attempts, query_arg, repair_fn, current_query,
                processed_query, error_history, attempt, error_msg, refine_pc,
                refine_ret, exception, verdicts, explained, candidate, repairs,
                heuristics, repair_call>>

VARIABLES
    \* ---- CypherQueryValidator.validate_syntax -----------------------------
    vs_query,        \* the argument query of the last call
    vs_ret,          \* what the last call returned, None before the first call
    vs_outcome,      \* what conn.execute did in the last call
    executed,        \* history: the texts given to conn.execute, in order
    invocations      \* history: number of validate_syntax calls made

validateVars == <<vs_query, vs_ret, vs_outcome, executed, invocations>>

VARIABLES
    \* ---- PerformanceTracker ------------------------------------------------
    timings,         \* self.timings: stage name -> list of elapsed values
    current_run,     \* self.current_run: stage name -> elapsed
    stage_stack,     \* self.stage_stack: list of (stage_name, start_time)
    clock,           \* the value time.perf_counter() returned last
    active,          \* the track_stage scopes entered and not yet left, each
                     \* with its locals stage_name and start_time
    tracker_last,    \* history: the last tracker call and how it ended
    completed,       \* history: stage name -> elapsed values of the scopes
                     \* left since construction or the last reset
    tracker_ops,     \* history: number of scopes entered, resets and new runs
    enclosed,        \* history: for each active scope, the scopes entered
                     \* after it that were left while it was active
    left_enclosed    \* history: the same for the scope that was left last

trackerVars == <<timings, current_run, stage_stack, clock, active,
                 tracker_last, completed, tracker_ops, enclosed,
                 left_enclosed>>

VARIABLES
    \* ---- EnhancedGraphRAG.forward ------------------------------------------
    forward_pc,      \* "idle" between invocations, else the stage that is next
    forward_question,\* the argument question
    schema_dict,     \* the local schema_dict
    cached_result,   \* the local cached_result: None, or Some(dict); the dict
                     \* is the object the cache stores, not a copy
    cypher_query,    \* the local cypher_query
    is_valid,        \* the local is_valid
    final_context,   \* the local final_context
    forward_ret,     \* what the last invocation returned, None if it has not
    forward_trace    \* history: the calls of the invocation, in order

pipelineVars == <<forward_pc, forward_question, schema_dict, cached_result,
                  cypher_query, is_valid, final_context, forward_ret,
                  forward_trace>>

vars == <<cacheVars, ppVars, refineVars, validateVars, trackerVars,
          pipelineVars>>

\* What the steps of one object leave unchanged.
\* The cache is driven by its own callers and by the pipeline: its steps
\* say nothing of the pipeline's variables.
notCacheVars == <<ppVars, refineVars, validateVars>>
notPpVars == <<cacheVars, refineVars, validateVars, trackerVars, pipelineVars>>
notRefineVars == <<cacheVars, ppVars, validateVars, trackerVars, pipelineVars>>
notValidateVars == <<cacheVars, ppVars, refineVars, trackerVars, pipelineVars>>
notTrackerVars == <<cacheVars, ppVars, refineVars, validateVars, pipelineVars>>
notPipelineVars == <<ppVars, refineVars, validateVars>>
trackerLogVars == <<active, tracker_last, completed, tracker_ops, enclosed,
                    left_enclosed>>

-----------------------------------------------------------------------------
(* Bounds of the exploration.                                              *)

MaxCapacity == 2
MaxCalls == 4
MaxFragments == 3
MaxAttempts == 3
MaxValidations == 3
MaxTrackerOps == 3
MaxClock == 2

-----------------------------------------------------------------------------
(* Generic helpers.                                                        *)

Max(a, b) == IF a >= b THEN a ELSE b
Min(a, b) == IF a <= b THEN a ELSE b

\* Optional[...]: None, or one value.
None == <<>>
Some(v) == <<v>>

-----------------------------------------------------------------------------
(* Text2CypherCache                                                        *)

\* The questions and the schema dictionaries the calls are made with.  A
\* schema dict is the sequence of its (field, value) items in insertion
\* order; SchemaAB and SchemaBA are equal as dicts and differ in that order.
Questions == {"q1", "q2"}
SchemaAB == << <<"edges", 1>>, <<"nodes", 1>> >>
SchemaBA == << <<"nodes", 1>>, <<"edges", 1>> >>
SchemaC == << <<"nodes", 2>> >>
Schemas == {SchemaAB, SchemaBA, SchemaC}

\* The result dicts handed to set().
Results == { [query |-> "MATCH 1", cached |-> FALSE],
             [query |-> "MATCH 2", cached |-> FALSE] }

\* The sort order of the field names (json.dumps(..., sort_keys=True)).
FieldOrder == <<"edges", "nodes">>

RECURSIVE SortKeysFrom(_, _)
SortKeysFrom(schema, i) ==
    IF i > Len(FieldOrder) THEN <<>>
    ELSE SelectSeq(schema, LAMBDA item : item[1] = FieldOrder[i])
         \o SortKeysFrom(schema, i + 1)

\* A serialisation that keeps the insertion order of the fields.
JsonDumpsInsertion(schema) == schema

\* json.dumps(schema, sort_keys=True): the items in sorted field order.
JsonDumpsSorted(schema) == SortKeysFrom(schema, 1)

\* hashlib.sha256(x).hexdigest()[:16]: a digest, taken to be free of
\* collisions on the texts of the model.
Sha256Prefix(text) == <<"sha256", text>>

\* A key derivation that serialises the schema in insertion order.
GenerateKeyUnsorted(question, schema) ==
    <<Sha256Prefix(question), Sha256Prefix(schema)>>

\* Text2CypherCache._generate_key

GenerateKey(question, schema) ==
    <<Sha256Prefix(question), Sha256Prefix(JsonDumpsSorted(schema))>>

\* key in self.cache
InCache(c, key) == \E i \in 1..Len(c) : c[i].key = key

IndexOf(c, key) == CHOOSE i \in 1..Len(c) : c[i].key = key

\* self.cache[key]
Lookup(c, key) == c[IndexOf(c, key)].val

\* OrderedDict.move_to_end(key)
MoveToEnd(c, key) ==
    LET i == IndexOf(c, key)
    IN  SubSeq(c, 1, i - 1) \o SubSeq(c, i + 1, Len(c)) \o <<c[i]>>

\* An assignment that leaves the entry of a stored key as it was.
SetItemKeep(c, key, result) ==
    IF InCache(c, key) THEN c ELSE Append(c, [key |-> key, val |-> result])

\* self.cache[key] = result: an existing key keeps its position.
SetItem(c, key, result) ==
    IF InCache(c, key)
    THEN [c EXCEPT ![IndexOf(c, key)].val = result]
    ELSE Append(c, [key |-> key, val |-> result])

\* OrderedDict.popitem(last=False)
PopItemFirst(c) == Tail(c)

PopItemLast(c) == SubSeq(c, 1, Len(c) - 1)

Keys(c) == {c[i].key : i \in 1..Len(c)}

KeyOrder(c) == [i \in 1..Len(c) |-> c[i].key]

NoCall == [op |-> "init", question |-> "", schema |-> <<>>, result |-> None,
           ret |-> None, evicted |-> {}]

\* History: key was accessed just now (a get hit or a set); the keys that
\* are no longer stored leave the list.
Touch(order, key) == SelectSeq(order, LAMBDA k : k # key) \o <<key>>

Accessed(order, key, stored) ==
    SelectSeq(Touch(order, key), LAMBDA k : k \in stored)

CacheStart ==
    /\ max_size \in 0..MaxCapacity
    /\ cache = <<>>
    /\ hits = 0
    /\ misses = 0
    /\ last = NoCall
    /\ prev = NoCall
    /\ lru = <<>>
    /\ ncalls = 0
    /\ get_calls = 0
    /\ get_returns = 0

\* A get that leaves the order as it is.
GetNoPromote(c, key) == c

\* What get() does to the OrderedDict on a hit: move_to_end(key).
GetPromote(c, key) == MoveToEnd(c, key)

\* Text2CypherCache.get
Get(question, schema) ==
    LET key == GenerateKey(question, schema) IN
    /\ ncalls < MaxCalls
    /\ IF InCache(cache, key)
       THEN /\ hits' = hits + 1
            /\ misses' = misses
            /\ cache' = GetPromote(cache, key)
            /\ last' = [op |-> "get", question |-> question, schema |-> schema,
                        result |-> None, ret |-> Some(Lookup(cache', key)),
                        evicted |-> {}]
            /\ lru' = Accessed(lru, key, Keys(cache'))
       ELSE /\ misses' = misses + 1
            /\ hits' = hits
            /\ cache' = cache
            /\ last' = [op |-> "get", question |-> question, schema |-> schema,
                        result |-> None, ret |-> None, evicted |-> {}]
            /\ lru' = lru
    /\ prev' = last
    /\ ncalls' = ncalls + 1
    /\ get_calls' = get_calls + 1
    /\ get_returns' = IF last'.ret # None THEN get_returns + 1 ELSE get_returns
    /\ UNCHANGED <<max_size, notCacheVars>>

\* A pruning that drops the newest entry, and one that drops none.
PruneNewest(c, capacity) == IF Len(c) > capacity THEN PopItemLast(c) ELSE c

PruneNever(c, capacity) == c

\* The pruning at the end of set(): popitem(last=False) when over capacity.
Prune(c, capacity) == IF Len(c) > capacity THEN PopItemFirst(c) ELSE c

\* A set that counts as a miss.
SetCountingMiss(question, schema, result) ==
    LET key == GenerateKey(question, schema)
        moved == IF InCache(cache, key) THEN MoveToEnd(cache, key) ELSE cache
        stored == SetItem(moved, key, result)
    IN  /\ ncalls < MaxCalls
        /\ cache' = Prune(stored, max_size)
        /\ last' = [op |-> "set", question |-> question, schema |-> schema,
                    result |-> Some(result), ret |-> None,
                    evicted |-> Keys(stored) \ Keys(cache')]
        /\ lru' = Accessed(lru, key, Keys(cache'))
        /\ prev' = last
        /\ ncalls' = ncalls + 1
        /\ misses' = misses + 1
        /\ UNCHANGED <<max_size, hits, get_calls, get_returns, notCacheVars>>

\* Text2CypherCache.set
Set(question, schema, result) ==
    LET key == GenerateKey(question, schema)
        moved == IF InCache(cache, key) THEN MoveToEnd(cache, key) ELSE cache
        stored == SetItem(moved, key, result)
    IN  /\ ncalls < MaxCalls
        /\ cache' = Prune(stored, max_size)
        /\ last' = [op |-> "set", question |-> question, schema |-> schema,
                    result |-> Some(result), ret |-> None,
                    evicted |-> Keys(stored) \ Keys(cache')]
        /\ lru' = Accessed(lru, key, Keys(cache'))
        /\ prev' = last
        /\ ncalls' = ncalls + 1
        /\ UNCHANGED <<max_size, hits, misses, get_calls, get_returns,
                       notCacheVars>>

\* A clear that empties the storage and leaves the counters.
ClearKeepsCounters ==
    /\ ncalls < MaxCalls
    /\ cache' = <<>>
    /\ last' = [op |-> "clear", question |-> "", schema |-> <<>>,
                result |-> None, ret |-> None, evicted |-> {}]
    /\ lru' = <<>>
    /\ prev' = last
    /\ ncalls' = ncalls + 1
    /\ get_calls' = 0
    /\ get_returns' = 0
    /\ UNCHANGED <<max_size, hits, misses, notCacheVars>>

\* Text2CypherCache.clear
Clear ==
    /\ ncalls < MaxCalls
    /\ cache' = <<>>
    /\ hits' = 0
    /\ misses' = 0
    /\ last' = [op |-> "clear", question |-> "", schema |-> <<>>,
                result |-> None, ret |-> None, evicted |-> {}]
    /\ lru' = <<>>
    /\ prev' = last
    /\ ncalls' = ncalls + 1
    /\ get_calls' = 0
    /\ get_returns' = 0
    /\ UNCHANGED <<max_size, notCacheVars>>

RECURSIVE Gcd(_, _)
Gcd(a, b) == IF b = 0 THEN a ELSE Gcd(b, a % b)

\* a / b (true division) for b > 0: the quotient as a fraction in lowest
\* terms, so that two quotients are equal exactly when their values are.
TrueDiv(a, b) == [num |-> a \div Gcd(a, b), den |-> b \div Gcd(a, b)]

\* The number 0; 0 and 0.0 are the same value.
Zero == [num |-> 0, den |-> 1]

\* A rate taken over the misses alone.
HitRateOverMisses(h, m) == IF m > 0 THEN TrueDiv(h, m) ELSE Zero

\* hit_rate = self.hits / total_requests if total_requests > 0 else 0
HitRate(h, m) == IF h + m > 0 THEN TrueDiv(h, h + m) ELSE Zero

\* Text2CypherCache.get_stats: it reads the state and changes nothing.
GetStats ==
    [size |-> Len(cache), max_size |-> max_size, hits |-> hits,
     misses |-> misses, hit_rate |-> HitRate(hits, misses)]

\* A call of get_stats, and a call of len(cache) (__len__): each returns
\* what it reads.
GetStatsCall ==
    /\ ncalls < MaxCalls
    /\ last' = [op |-> "get_stats", question |-> "", schema |-> <<>>,
                result |-> None, ret |-> Some(GetStats), evicted |-> {}]
    /\ prev' = last
    /\ ncalls' = ncalls + 1
    /\ UNCHANGED <<max_size, cache, hits, misses, lru, get_calls, get_returns,
                   notCacheVars, pipelineVars, trackerVars>>

LenCall ==
    /\ ncalls < MaxCalls
    /\ last' = [op |-> "len", question |-> "", schema |-> <<>>,
                result |-> None, ret |-> Some(Len(cache)), evicted |-> {}]
    /\ prev' = last
    /\ ncalls' = ncalls + 1
    /\ UNCHANGED <<max_size, cache, hits, misses, lru, get_calls, get_returns,
                   notCacheVars, pipelineVars, trackerVars>>


-----------------------------------------------------------------------------
(* Text: a Python str is the sequence of its characters.                   *)

LowerLetters == <<"a", "b", "c", "d", "e", "f", "g", "h", "i", "j", "k", "l", "m", "n", "o", "p", "q", "r", "s", "t", "u", "v", "w", "x", "y", "z">>
UpperLetters == <<"A", "B", "C", "D", "E", "F", "G", "H", "I", "J", "K", "L", "M", "N", "O", "P", "Q", "R", "S", "T", "U", "V", "W", "X", "Y", "Z">>
Digits == <<"0", "1", "2", "3", "4", "5", "6", "7", "8", "9">>

Range(f) == {f[i] : i \in DOMAIN f}

\* \s of the re module, and what str.strip() and str.split() take for blank.
Whitespace == {" ", "\n", "\t"}

\* \w of the re module.
WordChars == Range(LowerLetters) \cup Range(UpperLetters) \cup Range(Digits) \cup {"_"}

\* [a-zA-Z_] and [a-zA-Z0-9_] of the identifier test.
IdentStart == Range(LowerLetters) \cup Range(UpperLetters) \cup {"_"}
IdentChars == IdentStart \cup Range(Digits)

LowerOf == [c \in Range(UpperLetters) |->
              LowerLetters[CHOOSE i \in 1..26 : UpperLetters[i] = c]]

\* str.lower() of one character.
ToLowerChar(c) == IF c \in DOMAIN LowerOf THEN LowerOf[c] ELSE c

\* str.lower()
ToLower(s) == [i \in 1..Len(s) |-> ToLowerChar(s[i])]

MinOf(S) == CHOOSE x \in S : \A y \in S : x <= y

\* s[i:].startswith(p), positions counted from 1.
StartsWithAt(s, i, p) ==
    /\ i >= 1
    /\ i + Len(p) - 1 <= Len(s)
    /\ \A k \in 1..Len(p) : s[i + k - 1] = p[k]

\* The same, ignoring letter case (re.IGNORECASE against a literal).
StartsWithAtCI(s, i, p) ==
    /\ i >= 1
    /\ i + Len(p) - 1 <= Len(s)
    /\ \A k \in 1..Len(p) : ToLowerChar(s[i + k - 1]) = ToLowerChar(p[k])

\* s.find(p, from): the first position at or after from where p occurs, 0 if none.
Find(s, p, from) ==
    LET at == {i \in from..(Len(s) - Len(p) + 1) : StartsWithAt(s, i, p)}
    IN  IF at = {} THEN 0 ELSE MinOf(at)

\* p in s
Contains(s, p) == Find(s, p, 1) # 0

\* The position after the longest run of characters of class starting at i.
RunEnd(s, i, class) ==
    LET stops == {j \in i..Len(s) : s[j] \notin class}
    IN  IF stops = {} THEN Len(s) + 1 ELSE MinOf(stops)

\* str.strip()
Strip(s) ==
    LET keep == {i \in 1..Len(s) : s[i] \notin Whitespace}
    IN  IF keep = {} THEN <<>>
        ELSE SubSeq(s, MinOf(keep), CHOOSE i \in keep : \A j \in keep : j <= i)

\* str.replace(old, new, 1)
ReplaceFirst(s, old, new) ==
    LET i == Find(s, old, 1)
    IN  IF i = 0 THEN s
        ELSE SubSeq(s, 1, i - 1) \o new \o SubSeq(s, i + Len(old), Len(s))

RECURSIVE ReplaceAllFrom(_, _, _, _)
ReplaceAllFrom(s, old, new, from) ==
    LET i == Find(s, old, from)
    IN  IF i = 0 THEN SubSeq(s, from, Len(s))
        ELSE SubSeq(s, from, i - 1) \o new
             \o ReplaceAllFrom(s, old, new, i + Len(old))

\* str.replace(old, new)
ReplaceAll(s, old, new) == ReplaceAllFrom(s, old, new, 1)

RECURSIVE SplitFrom(_, _, _)
SplitFrom(s, sep, from) ==
    LET at == {i \in from..Len(s) : s[i] = sep}
    IN  IF at = {} THEN <<SubSeq(s, from, Len(s))>>
        ELSE <<SubSeq(s, from, MinOf(at) - 1)>> \o SplitFrom(s, sep, MinOf(at) + 1)

\* str.split(sep) for a separator of one character.
Split(s, sep) == SplitFrom(s, sep, 1)

RECURSIVE CollapseFrom(_, _)
CollapseFrom(s, from) ==
    IF from > Len(s) THEN <<>>
    ELSE IF s[from] \in Whitespace
         THEN <<" ">> \o CollapseFrom(s, RunEnd(s, from, Whitespace))
         ELSE LET e == RunEnd(s, from, {c \in Range(s) : c \notin Whitespace})
              IN  SubSeq(s, from, e - 1) \o CollapseFrom(s, e)

\* re.sub(r'\s+', ' ', s)
CollapseWhitespace(s) == CollapseFrom(s, 1)

-----------------------------------------------------------------------------
(* CypherQueryValidator: the rewriting rules of post_process.              *)

\* The number of characters before a match that are searched for 'lower'.
LookbackWindow == 20

TextLower == <<"l", "o", "w", "e", "r">>
TextLowerCall == <<"l", "o", "w", "e", "r", "(">>
TextToLowerCall == <<"t", "o", "_", "l", "o", "w", "e", "r", "(">>
TextContains == <<"C", "O", "N", "T", "A", "I", "N", "S">>
TextReturn == <<"R", "E", "T", "U", "R", "N">>
TextOrderBy == <<"O", "R", "D", "E", "R", " ", "B", "Y">>
TextLimit == <<"L", "I", "M", "I", "T">>
TextContainsQuote == <<")", " ", "C", "O", "N", "T", "A", "I", "N", "S", " ", "'">>
Quote == "'"

\* (\w+\.\w+) matched at i: the position after it, 0 when it does not match.
PropertyEnd(s, i) ==
    LET e1 == RunEnd(s, i, WordChars)
    IN  IF e1 = i \/ e1 > Len(s) THEN 0
        ELSE IF s[e1] # "." THEN 0
        ELSE LET e2 == RunEnd(s, e1 + 1, WordChars)
             IN  IF e2 = e1 + 1 THEN 0 ELSE e2

\* '([^']+)' matched at j: the position of the closing quote, 0 when it does
\* not match.
LiteralClose(s, j) ==
    IF j < 1 \/ j > Len(s) THEN 0
    ELSE IF s[j] # Quote THEN 0
    ELSE LET quotes == {k \in (j + 1)..Len(s) : s[k] = Quote}
         IN  IF quotes = {} THEN 0
             ELSE IF MinOf(quotes) = j + 1 THEN 0 ELSE MinOf(quotes)

\* (\w+\.\w+)\s*=\s*'([^']+)' matched at i.  A match is <<last position of
\* group 1, first position of group 2, position of the closing quote>>, no
\* match is <<>>.
EqualityAt(s, i) ==
    LET e2 == PropertyEnd(s, i)
        w1 == RunEnd(s, e2, Whitespace)
        w2 == RunEnd(s, w1 + 1, Whitespace)
        c == LiteralClose(s, w2)
    IN  IF e2 = 0 \/ w1 > Len(s) THEN <<>>
        ELSE IF s[w1] # "=" \/ c = 0 THEN <<>>
        ELSE <<e2 - 1, w2 + 1, c>>

\* (?<!lower\()(\w+\.\w+)\s+CONTAINS\s+'([^']+)' matched at i, ignoring case.
ContainsAt(s, i) ==
    LET e2 == PropertyEnd(s, i)
        w1 == RunEnd(s, e2, Whitespace)
        k == w1 + Len(TextContains)
        w2 == RunEnd(s, k, Whitespace)
        c == LiteralClose(s, w2)
    IN  IF StartsWithAtCI(s, i - Len(TextLowerCall), TextLowerCall) THEN <<>>
        ELSE IF e2 = 0 \/ w1 = e2 THEN <<>>
        ELSE IF ~StartsWithAtCI(s, w1, TextContains) \/ w2 = k \/ c = 0 THEN <<>>
        ELSE <<e2 - 1, w2 + 1, c>>

\* The two patterns of _enforce_lowercase_comparisons, in their order.
Patterns == <<"equality", "contains">>

PatternAt(pattern, s, i) ==
    IF pattern = "equality" THEN EqualityAt(s, i) ELSE ContainsAt(s, i)

RECURSIVE FindIterFrom(_, _, _)

\* The scan at position i, where the attempt to match gave m: a match is
\* recorded and the scan goes on after it, a failure moves the scan on by one.
FindIterAt(pattern, s, i, m) ==
    IF m = <<>> THEN FindIterFrom(pattern, s, i + 1)
    ELSE <<[start |-> i, g1end |-> m[1], g2start |-> m[2], close |-> m[3]]>>
         \o FindIterFrom(pattern, s, m[3] + 1)

FindIterFrom(pattern, s, from) ==
    IF from > Len(s) THEN <<>>
    ELSE FindIterAt(pattern, s, from,
                    IF s[from] \in WordChars THEN PatternAt(pattern, s, from)
                    ELSE <<>>)

\* re.finditer(pattern, s, re.IGNORECASE): the matches, left to right, not
\* overlapping.
FindIter(pattern, s) == FindIterFrom(pattern, s, 1)

\* match.group(0)
Group0(s, m) == SubSeq(s, m.start, m.close)

\* The replacement r"lower(\1) CONTAINS '\2'" expanded for match m of s.
Expand(s, m) ==
    TextLowerCall \o SubSeq(s, m.start, m.g1end) \o TextContainsQuote
    \o SubSeq(s, m.g2start, m.close - 1) \o <<Quote>>

RECURSIVE ReSubFrom(_, _, _, _)
ReSubFrom(s, matches, k, from) ==
    IF k > Len(matches) THEN SubSeq(s, from, Len(s))
    ELSE SubSeq(s, from, matches[k].start - 1) \o Expand(s, matches[k])
         \o ReSubFrom(s, matches, k + 1, matches[k].close + 1)

\* re.sub(pattern, replacement, s, flags=re.IGNORECASE)
ReSub(pattern, s) == ReSubFrom(s, FindIter(pattern, s), 1, 1)

\* 'lower' in result[max(0, match.start()-20):match.start()].lower()
LowerBefore(result, start) ==
    Contains(ToLower(SubSeq(result, Max(1, start - LookbackWindow),
                            Min(start - 1, Len(result)))),
             TextLower)

\* One turn of the inner loop: the match m was found in snapshot, the text
\* that finditer was given; result is the text as rewritten so far.
RewriteMatch(pattern, snapshot, result, m) ==
    LET original == Group0(snapshot, m)
    IN  IF LowerBefore(result, m.start) THEN result
        ELSE ReplaceFirst(result, original, ReSub(pattern, original))

RECURSIVE RewriteMatches(_, _, _, _, _)
RewriteMatches(pattern, snapshot, result, matches, k) ==
    IF k > Len(matches) THEN result
    ELSE RewriteMatches(pattern, snapshot,
                        RewriteMatch(pattern, snapshot, result, matches[k]),
                        matches, k + 1)

\* The body of the outer loop for one pattern.
RewritePattern(pattern, result) ==
    RewriteMatches(pattern, result, result, FindIter(pattern, result), 1)

\* CypherQueryValidator._enforce_lowercase_comparisons
EnforceLowercaseComparisons(query) ==
    RewritePattern(Patterns[2], RewritePattern(Patterns[1], query))

\* The end of group 1 of \bRETURN\b(.+?)(?:ORDER BY|LIMIT|$) for a RETURN at
\* i, ignoring case: the lazy group stops at the first position where ORDER BY,
\* LIMIT or the end of the text follows; '.' does not match a line break.  0
\* when the pattern does not match at i.
ReturnClauseEnd(s, i) ==
    LET after == i + Len(TextReturn)
        ends == {j \in (after + 1)..(Len(s) + 1) :
                   /\ \A k \in after..(j - 1) : s[k] # "\n"
                   /\ \/ StartsWithAtCI(s, j, TextOrderBy)
                      \/ StartsWithAtCI(s, j, TextLimit)
                      \/ j = Len(s) + 1
                      \/ j = Len(s) /\ s[j] = "\n"}
    IN  IF ~StartsWithAtCI(s, i, TextReturn) THEN 0
        ELSE IF i > 1 /\ s[i - 1] \in WordChars THEN 0
        ELSE IF after <= Len(s) /\ s[after] \in WordChars THEN 0
        ELSE IF ends = {} THEN 0
        ELSE MinOf(ends) - 1

\* re.search(r'\bRETURN\b(.+?)(?:ORDER BY|LIMIT|$)', query, re.IGNORECASE):
\* group 1 of the leftmost match, None when there is no match.
ReturnMatch(query) ==
    LET starts == {i \in 1..Len(query) : ReturnClauseEnd(query, i) # 0}
    IN  IF starts = {} THEN None
        ELSE Some(SubSeq(query, MinOf(starts) + Len(TextReturn),
                         ReturnClauseEnd(query, MinOf(starts))))

\* [item.strip() for item in return_clause.split(',')]
ReturnItems(return_clause) ==
    LET parts == Split(return_clause, ",")
    IN  [k \in 1..Len(parts) |-> Strip(parts[k])]

\* item.split()[0] of an item that holds a character that is not blank.
FirstWord(item) ==
    LET t == Strip(item)
    IN  SubSeq(t, 1, RunEnd(t, 1, {c \in Range(t) : c \notin Whitespace}) - 1)

\* re.match(r'^[a-zA-Z_][a-zA-Z0-9_]*$', word)
IsBareIdentifier(word) ==
    /\ Len(word) >= 1
    /\ word[1] \in IdentStart
    /\ \A k \in 2..Len(word) : word[k] \in IdentChars

\* The scan of the items stops (break) at the first bare identifier; an item
\* without any word reached before that makes item.split()[0] raise IndexError.
ItemsRaise(items) ==
    \E k \in 1..Len(items) :
        /\ Strip(items[k]) = <<>>
        /\ \A j \in 1..(k - 1) :
              Strip(items[j]) # <<>> /\ ~IsBareIdentifier(FirstWord(items[j]))

\* CypherQueryValidator._fix_return_projection raises IndexError on query.
FixReturnProjectionRaises(query) ==
    LET m == ReturnMatch(query)
    IN  IF m = None THEN FALSE
        ELSE ItemsRaise(ReturnItems(Strip(m[1])))

\* CypherQueryValidator._fix_return_projection, when it returns.
FixReturnProjection(query) == query

\* CypherQueryValidator.post_process raises on query.
PostProcessRaises(query) ==
    FixReturnProjectionRaises(EnforceLowercaseComparisons(Strip(query)))

\* CypherQueryValidator.post_process, when it returns.
PostProcess(query) ==
    ReplaceAll(
        CollapseWhitespace(
            FixReturnProjection(EnforceLowercaseComparisons(Strip(query)))),
        TextToLowerCall, TextLowerCall)

-----------------------------------------------------------------------------
(* post_process applied to a query text, and again to its own output.      *)

\* The pieces the query texts are put together from.
FragEq == <<"a", ".", "b", " ", "=", " ", "'", "X", "'">>
FragAndEq == <<" ", "A", "N", "D", " ", "c", ".", "d", " ", "=", " ", "'", "y", "'">>
FragCont == <<"a", ".", "b", " ", "C", "O", "N", "T", "A", "I", "N", "S", " ", "'", "X", "'">>
FragLower == <<"l", "o", "w", "e", "r", "(">>
FragToLower == <<"t", "o", "_", "l", "o", "w", "e", "r", "(">>
FragToLowerCamel == <<"t", "o", "L", "o", "w", "e", "r", "(">>
FragPad == <<" ", "A", "N", "D", " ", "n", ".", "a", "g", "e", " ", ">", " ", "1", "8", " ", "A", "N", "D", " ">>
FragReturn == <<" ", "R", "E", "T", "U", "R", "N", " ", "a", ".", "b">>
FragComma == <<",", " ">>
FragBlank == <<" ", "\n", " ">>

Fragments == {FragEq, FragAndEq, FragCont, FragLower, FragToLower,
              FragToLowerCamel, FragPad, FragReturn, FragComma, FragBlank}

RECURSIVE Join(_)
Join(pieces) == IF pieces = <<>> THEN <<>> ELSE Head(pieces) \o Join(Tail(pieces))

\* Every text made of at most MaxFragments pieces.
QueryTexts ==
    {Join(pieces) : pieces \in UNION {[1..n -> Fragments] : n \in 0..MaxFragments}}

PostProcessStart ==
    /\ raw_query \in QueryTexts
    /\ once = None
    /\ twice = None
    /\ pp_pc = "start"

\* processed = validator.post_process(raw_query)
PostProcessOnce ==
    /\ pp_pc = "start"
    /\ IF PostProcessRaises(raw_query)
       THEN pp_pc' = "raised" /\ once' = once
       ELSE pp_pc' = "once" /\ once' = Some(PostProcess(raw_query))
    /\ UNCHANGED <<raw_query, twice, notPpVars>>

\* validator.post_process(processed)
PostProcessAgain ==
    /\ pp_pc = "once"
    /\ IF PostProcessRaises(once[1])
       THEN pp_pc' = "raised" /\ twice' = twice
       ELSE pp_pc' = "twice" /\ twice' = Some(PostProcess(once[1]))
    /\ UNCHANGED <<raw_query, once, notPpVars>>

-----------------------------------------------------------------------------
(* CypherSelfRefinement                                                    *)

TextSemicolon == <<"s", "e", "m", "i", "c", "o", "l", "o", "n">>
TextApoc == <<"a", "p", "o", "c">>
TextCallApoc == <<"C", "A", "L", "L", " ", "a", "p", "o", "c", ".">>
TextExplain == <<"E", "X", "P", "L", "A", "I", "N", " ">>

\* str.rstrip(';')
RStripSemicolons(s) ==
    LET keep == {i \in 1..Len(s) : s[i] # ";"}
    IN  IF keep = {} THEN <<>>
        ELSE SubSeq(s, 1, CHOOSE i \in keep : \A j \in keep : j <= i)

\* CALL apoc\.[^\s]+ matched at i, ignoring case: the position after the
\* match, 0 when it does not match.
ApocCallEnd(s, i) ==
    LET k == i + Len(TextCallApoc)
        e == RunEnd(s, k, {c \in Range(s) : c \notin Whitespace})
    IN  IF ~StartsWithAtCI(s, i, TextCallApoc) THEN 0
        ELSE IF e = k THEN 0 ELSE e

RECURSIVE RemoveApocCallsFrom(_, _)
RemoveApocCallsFrom(s, from) ==
    LET starts == {i \in from..Len(s) : ApocCallEnd(s, i) # 0}
    IN  IF starts = {} THEN SubSeq(s, from, Len(s))
        ELSE SubSeq(s, from, MinOf(starts) - 1)
             \o RemoveApocCallsFrom(s, ApocCallEnd(s, MinOf(starts)))

\* re.sub(r'CALL apoc\.[^\s]+', '', s, flags=re.IGNORECASE)
RemoveApocCalls(s) == RemoveApocCallsFrom(s, 1)

\* CypherSelfRefinement._apply_heuristic_repairs
ApplyHeuristicRepairs(text, message) ==
    LET terminated == IF Contains(ToLower(message), TextSemicolon)
                      THEN RStripSemicolons(text) \o <<";">>
                      ELSE text
    IN  IF Contains(ToLower(terminated), TextApoc)
        THEN RemoveApocCalls(terminated)
        ELSE terminated

\* A dry-run text that is the bare query.
BareQuery(text) == text

\* explain_query = f"EXPLAIN {query}"
ExplainQuery(text) == TextExplain \o text

\* CypherQueryValidator.validate_syntax for an outcome of conn.execute: None
\* when it returns, Some(str(e)) when it raises e.
ValidateSyntax(outcome) ==
    IF outcome = None THEN <<TRUE, None>> ELSE <<FALSE, outcome>>

\* An entry labelled with the loop index as it is, counted from 0.
FormatAttemptFromZero(n, message) == <<"Attempt", n, message>>

\* f"Attempt {attempt + 1}: {error_msg}"
FormatAttempt(n, message) == <<"Attempt", n + 1, message>>

\* A success return that hands back the candidate before normalisation, and a
\* failure return that hands back the output of the last repair.
SuccessResultRaw(processed, current, history) == <<current, TRUE, history>>

FailureResultRepaired(processed, current, history) == <<current, FALSE, history>>

\* return processed_query, True, error_history
SuccessResult(processed, current, history) == <<processed, TRUE, history>>

\* return processed_query, False, error_history
FailureResult(processed, current, history) == <<processed, FALSE, history>>

\* The query texts refine is called with, and a repair function may return.
RefineQueryRewritten == <<" ", "a", ".", "b", " ", "=", " ", "'", "X", "'", "\n", "R", "E", "T", "U", "R", "N", " ", "a", ".", "b">>
RefineQueryEmptyItem == <<"R", "E", "T", "U", "R", "N", " ", "a", ".", "b", ",">>
RefineQueryApoc == <<"C", "A", "L", "L", " ", "a", "p", "o", "c", ".", "x", " ", "R", "E", "T", "U", "R", "N", " ", "a", ";", ";">>
RefineQueryTrailingBlank == <<"R", "E", "T", "U", "R", "N", " ", "a", ".", "b", ";", "\n">>
RefineQueryApocLast == <<"R", "E", "T", "U", "R", "N", " ", "a", ".", "b", " ", "C", "A", "L", "L", " ", "a", "p", "o", "c", ".", "x">>
RefineQueries == {RefineQueryRewritten, RefineQueryEmptyItem, RefineQueryApoc,
                  RefineQueryTrailingBlank, RefineQueryApocLast}

\* The messages of the exceptions conn.execute raises.
ErrorSemicolon == <<"P", "a", "r", "s", "e", "r", ":", " ", "e", "x", "p", "e", "c", "t", "e", "d", " ", "S", "e", "m", "i", "c", "o", "l", "o", "n">>
ErrorBinder == <<"B", "i", "n", "d", "e", "r", ":", " ", "n", "o", " ", "s", "u", "c", "h", " ", "t", "a", "b", "l", "e">>
ErrorMessages == {ErrorSemicolon, ErrorBinder}

SourceFiles == {"cypher_validator.py", "utils/cypher_validator.py"}

RefineStart ==
    /\ source_file \in SourceFiles
    /\ max_attempts \in 0..MaxAttempts
    /\ query_arg \in RefineQueries
    /\ repair_fn \in BOOLEAN
    /\ current_query = query_arg
    /\ processed_query = None
    /\ error_history = <<>>
    /\ attempt = 0
    /\ error_msg = None
    /\ refine_pc = "loop"
    /\ refine_ret = None
    /\ exception = ""
    /\ verdicts = <<>>
    /\ explained = None
    /\ candidate = None
    /\ repairs = 0
    /\ heuristics = 0
    /\ repair_call = None

\* for attempt in range(self.max_attempts):
\*     processed_query = self.validator.post_process(current_query)
RefineNormalize ==
    /\ refine_pc = "loop"
    /\ attempt < max_attempts
    /\ candidate' = Some(current_query)
    /\ IF PostProcessRaises(current_query)
       THEN /\ refine_pc' = "raised"
            /\ exception' = "IndexError"
            /\ processed_query' = processed_query
       ELSE /\ refine_pc' = "validate"
            /\ exception' = exception
            /\ processed_query' = Some(PostProcess(current_query))
    /\ UNCHANGED <<source_file, max_attempts, query_arg, repair_fn, current_query,
                   error_history, attempt, error_msg, refine_ret, verdicts,
                   explained, repairs, heuristics, repair_call, notRefineVars>>

\* The loop is over: return processed_query, False, error_history
RefineExhausted ==
    /\ refine_pc = "loop"
    /\ attempt >= max_attempts
    /\ IF processed_query = None
       THEN /\ refine_pc' = "raised"
            /\ exception' = "UnboundLocalError"
            /\ refine_ret' = refine_ret
       ELSE /\ refine_pc' = "returned"
            /\ exception' = exception
            /\ refine_ret' = Some(FailureResult(processed_query[1],
                                                current_query, error_history))
    /\ UNCHANGED <<source_file, max_attempts, query_arg, repair_fn, current_query,
                   processed_query, error_history, attempt, error_msg,
                   verdicts, explained, candidate, repairs, heuristics,
                   repair_call, notRefineVars>>

\* is_valid, error_msg = self.validator.validate_syntax(processed_query)
\* and what follows it up to the repair.
RefineValidate(outcome) ==
    LET answer == ValidateSyntax(outcome) IN
    /\ refine_pc = "validate"
    /\ explained' = Some(ExplainQuery(processed_query[1]))
    /\ verdicts' = Append(verdicts, answer[1])
    /\ error_msg' = answer[2]
    /\ IF answer[1]
       THEN /\ refine_pc' = "returned"
            /\ refine_ret' = Some(SuccessResult(processed_query[1],
                                                current_query, error_history))
            /\ error_history' = error_history
       ELSE /\ refine_pc' = "repair"
            /\ refine_ret' = refine_ret
            /\ error_history' =
                   Append(error_history, FormatAttempt(attempt, answer[2][1]))
    /\ UNCHANGED <<source_file, max_attempts, query_arg, repair_fn, current_query,
                   processed_query, attempt, exception, candidate, repairs,
                   heuristics, repair_call, notRefineVars>>

\* current_query = repair_fn(current_query, error_msg)
RefineRepairFn(next) ==
    /\ refine_pc = "repair"
    /\ repair_fn
    /\ current_query' = next
    /\ repair_call' = Some([query |-> current_query, error_msg |-> error_msg[1],
                            ret |-> next])
    /\ repairs' = repairs + 1
    /\ attempt' = attempt + 1
    /\ refine_pc' = "loop"
    /\ UNCHANGED <<source_file, max_attempts, query_arg, repair_fn,
                   processed_query, error_history, error_msg, refine_ret,
                   exception, verdicts, explained, candidate, heuristics,
                   notRefineVars>>

\* A loop that leaves the candidate alone after the last permitted attempt
\* has failed.
RefineHeuristicUnlessLast ==
    /\ refine_pc = "repair"
    /\ ~repair_fn
    /\ IF source_file = "utils/cypher_validator.py"
       THEN /\ refine_pc' = "raised"
            /\ exception' = "AttributeError"
            /\ UNCHANGED <<current_query, heuristics, attempt>>
       ELSE /\ refine_pc' = "loop"
            /\ exception' = exception
            /\ attempt' = attempt + 1
            /\ IF attempt + 1 < max_attempts
               THEN /\ current_query' =
                          ApplyHeuristicRepairs(current_query, error_msg[1])
                    /\ heuristics' = heuristics + 1
               ELSE UNCHANGED <<current_query, heuristics>>
    /\ UNCHANGED <<source_file, max_attempts, query_arg, repair_fn,
                   processed_query, error_history, error_msg, refine_ret,
                   verdicts, explained, candidate, repairs, repair_call,
                   notRefineVars>>

\* current_query = self._apply_heuristic_repairs(current_query, error_msg);
\* the copy under utils/ calls self._apply_hexuristic_repairs, which the
\* class does not define.
RefineHeuristic ==
    /\ refine_pc = "repair"
    /\ ~repair_fn
    /\ IF source_file = "utils/cypher_validator.py"
       THEN /\ refine_pc' = "raised"
            /\ exception' = "AttributeError"
            /\ UNCHANGED <<current_query, heuristics, attempt>>
       ELSE /\ refine_pc' = "loop"
            /\ exception' = exception
            /\ current_query' = ApplyHeuristicRepairs(current_query, error_msg[1])
            /\ heuristics' = heuristics + 1
            /\ attempt' = attempt + 1
    /\ UNCHANGED <<source_file, max_attempts, query_arg, repair_fn,
                   processed_query, error_history, error_msg, refine_ret,
                   verdicts, explained, candidate, repairs, repair_call,
                   notRefineVars>>

RefineValidates == \E outcome \in {None} \cup {Some(e) : e \in ErrorMessages} :
                       RefineValidate(outcome)

RefineRepairs == \E next \in RefineQueries : RefineRepairFn(next)

-----------------------------------------------------------------------------
(* CypherQueryValidator.validate_syntax called on its own.                  *)

\* What conn.execute does with the text: None when it returns, Some(str(e))
\* when it raises the exception e.
ExecuteOutcomes == {None} \cup {Some(e) : e \in ErrorMessages}

ValidateStart ==
    /\ vs_query = <<>>
    /\ vs_ret = None
    /\ vs_outcome = None
    /\ executed = <<>>
    /\ invocations = 0

\* CypherQueryValidator.validate_syntax(query): the text it builds goes to
\* conn.execute once; except Exception turns a failure into the answer.
ValidateSyntaxCall(query, outcome) ==
    /\ invocations < MaxValidations
    /\ vs_query' = query
    /\ executed' = Append(executed, ExplainQuery(query))
    /\ vs_ret' = Some(ValidateSyntax(outcome))
    /\ vs_outcome' = outcome
    /\ invocations' = invocations + 1
    /\ UNCHANGED notValidateVars

ValidateSyntaxCalls ==
    \E query \in RefineQueries, outcome \in ExecuteOutcomes :
        ValidateSyntaxCall(query, outcome)

-----------------------------------------------------------------------------
(* PerformanceTracker                                                      *)

\* The stage names track_stage is called with: two of the pipeline's, and
\* the name get_timing_breakdown uses for its own entry.
StageNames == {"1_schema_retrieval", "2_cache_lookup", "_total"}

\* A dict is a function on the set of its keys; {} is the empty function.
EmptyDict == <<>>

\* d[k] = v
DictSet(d, k, v) == [x \in DOMAIN d \cup {k} |-> IF x = k THEN v ELSE d[x]]

\* A series that takes its new sample at the front.
PrependSample(d, k, v) ==
    DictSet(d, k, <<v>> \o (IF k \in DOMAIN d THEN d[k] ELSE <<>>))

\* d[k].append(v) on a defaultdict(list)
AppendSample(d, k, v) ==
    DictSet(d, k, (IF k \in DOMAIN d THEN d[k] ELSE <<>>) \o <<v>>)

\* sum(times), min(times), max(times) of a list
RECURSIVE SumSeq(_)
SumSeq(times) == IF times = <<>> THEN 0 ELSE Head(times) + SumSeq(Tail(times))

MinSeq(times) == MinOf({times[i] : i \in 1..Len(times)})

MaxSeq(times) ==
    CHOOSE x \in {times[i] : i \in 1..Len(times)} :
        \A i \in 1..Len(times) : times[i] <= x

\* sum(d.values())
RECURSIVE SumValuesOver(_, _)
SumValuesOver(d, keys) ==
    IF keys = {} THEN 0
    ELSE LET k == CHOOSE x \in keys : TRUE
         IN  d[k] + SumValuesOver(d, keys \ {k})

SumValues(d) == SumValuesOver(d, DOMAIN d)

NoTrackerCall == [op |-> "init", stage |-> "", elapsed |-> 0, failed |-> FALSE,
                  propagated |-> FALSE, raised |-> ""]

\* PerformanceTracker.__init__
TrackerStart ==
    /\ timings = EmptyDict
    /\ current_run = EmptyDict
    /\ stage_stack = <<>>
    /\ clock = 0
    /\ active = <<>>
    /\ tracker_last = NoTrackerCall
    /\ completed = EmptyDict
    /\ tracker_ops = 0
    /\ enclosed = <<>>
    /\ left_enclosed = {}

\* track_stage(stage_name) up to its yield; now is what time.perf_counter()
\* returns, never less than what it returned before.
TrackEnter(stage_name, now) ==
    /\ tracker_ops < MaxTrackerOps
    /\ clock' = now
    /\ stage_stack' = Append(stage_stack, <<stage_name, now>>)
    /\ active' = Append(active, [stage_name |-> stage_name, start_time |-> now])
    /\ tracker_last' = [op |-> "enter", stage |-> stage_name, elapsed |-> 0,
                        failed |-> FALSE, propagated |-> FALSE, raised |-> ""]
    /\ tracker_ops' = tracker_ops + 1
    /\ enclosed' = Append(enclosed, {})
    /\ UNCHANGED <<timings, current_run, completed, left_enclosed,
                   notTrackerVars>>

\* An exit that takes its start time from the stack element it removes.
TrackExitPopped(i, now, failed) ==
    LET scope == active[i]
        elapsed == IF stage_stack = <<>> THEN now - scope.start_time
                   ELSE now - stage_stack[Len(stage_stack)][2]
    IN  /\ clock' = now
        /\ active' = SubSeq(active, 1, i - 1) \o SubSeq(active, i + 1, Len(active))
        /\ completed' = AppendSample(completed, scope.stage_name, elapsed)
        /\ enclosed' = [j \in 1..(Len(active) - 1) |->
                           IF j < i
                           THEN enclosed[j] \cup
                                    {[stage_name |-> scope.stage_name,
                                      elapsed |-> elapsed,
                                      recorded |-> stage_stack # <<>>]}
                           ELSE enclosed[j + 1]]
        /\ left_enclosed' = enclosed[i]
        /\ IF stage_stack = <<>>
           THEN /\ tracker_last' = [op |-> "exit", stage |-> scope.stage_name,
                                   elapsed |-> elapsed, failed |-> failed,
                                   propagated |-> FALSE, raised |-> "IndexError"]
                /\ UNCHANGED <<timings, current_run, stage_stack>>
           ELSE /\ stage_stack' = SubSeq(stage_stack, 1, Len(stage_stack) - 1)
                /\ timings' = AppendSample(timings, scope.stage_name, elapsed)
                /\ current_run' = DictSet(current_run, scope.stage_name, elapsed)
                /\ tracker_last' = [op |-> "exit", stage |-> scope.stage_name,
                                   elapsed |-> elapsed, failed |-> failed,
                                   propagated |-> failed, raised |-> ""]
        /\ UNCHANGED <<tracker_ops, notTrackerVars>>

\* The finally block of track_stage for the scope active[i], left by normal
\* completion or by a failure of the enclosed work.  stage_stack.pop() on an
\* empty list raises IndexError before anything is recorded, and that
\* exception takes the place of the failure of the enclosed work.
TrackExit(i, now, failed) ==
    LET scope == active[i]
        elapsed == now - scope.start_time
    IN  /\ clock' = now
        /\ active' = SubSeq(active, 1, i - 1) \o SubSeq(active, i + 1, Len(active))
        /\ completed' = AppendSample(completed, scope.stage_name, elapsed)
        /\ enclosed' = [j \in 1..(Len(active) - 1) |->
                           IF j < i
                           THEN enclosed[j] \cup
                                    {[stage_name |-> scope.stage_name,
                                      elapsed |-> elapsed,
                                      recorded |-> stage_stack # <<>>]}
                           ELSE enclosed[j + 1]]
        /\ left_enclosed' = enclosed[i]
        /\ IF stage_stack = <<>>
           THEN /\ tracker_last' = [op |-> "exit", stage |-> scope.stage_name,
                                   elapsed |-> elapsed, failed |-> failed,
                                   propagated |-> FALSE, raised |-> "IndexError"]
                /\ UNCHANGED <<timings, current_run, stage_stack>>
           ELSE /\ stage_stack' = SubSeq(stage_stack, 1, Len(stage_stack) - 1)
                /\ timings' = AppendSample(timings, scope.stage_name, elapsed)
                /\ current_run' = DictSet(current_run, scope.stage_name, elapsed)
                /\ tracker_last' = [op |-> "exit", stage |-> scope.stage_name,
                                   elapsed |-> elapsed, failed |-> failed,
                                   propagated |-> failed, raised |-> ""]
        /\ UNCHANGED <<tracker_ops, notTrackerVars>>

\* A reset that clears the current run and the stack and keeps the series.
ResetKeepsTimings ==
    /\ tracker_ops < MaxTrackerOps
    /\ current_run' = EmptyDict
    /\ stage_stack' = <<>>
    /\ tracker_last' = [op |-> "reset", stage |-> "", elapsed |-> 0,
                        failed |-> FALSE, propagated |-> FALSE, raised |-> ""]
    /\ tracker_ops' = tracker_ops + 1
    /\ UNCHANGED <<timings, completed, clock, active, enclosed, left_enclosed,
                   notTrackerVars>>

\* PerformanceTracker.reset
Reset ==
    /\ tracker_ops < MaxTrackerOps
    /\ timings' = EmptyDict
    /\ current_run' = EmptyDict
    /\ stage_stack' = <<>>
    /\ completed' = EmptyDict
    /\ tracker_last' = [op |-> "reset", stage |-> "", elapsed |-> 0,
                        failed |-> FALSE, propagated |-> FALSE, raised |-> ""]
    /\ tracker_ops' = tracker_ops + 1
    /\ UNCHANGED <<clock, active, enclosed, left_enclosed, notTrackerVars>>

\* self.performance_tracker.current_run.clear(), which the pipeline does at
\* the start of an invocation.
NewRun ==
    /\ tracker_ops < MaxTrackerOps
    /\ current_run' = EmptyDict
    /\ tracker_last' = [op |-> "new_run", stage |-> "", elapsed |-> 0,
                        failed |-> FALSE, propagated |-> FALSE, raised |-> ""]
    /\ tracker_ops' = tracker_ops + 1
    /\ UNCHANGED <<timings, stage_stack, clock, active, completed, enclosed,
                   left_enclosed, notTrackerVars>>

TrackEnters ==
    \E stage_name \in StageNames, now \in clock..MaxClock :
        TrackEnter(stage_name, now)

TrackExits ==
    \E i \in 1..Len(active), now \in clock..MaxClock, failed \in BOOLEAN :
        TrackExit(i, now, failed)

\* PerformanceTracker.get_current_run: a copy of the map.
GetCurrentRun == current_run

\* PerformanceTracker.get_statistics; sum(times) / len(times) is kept as an
\* exact fraction.
GetStatistics ==
    [stage \in {k \in DOMAIN timings : timings[k] # <<>>} |->
        [count |-> Len(timings[stage]),
         mean |-> TrueDiv(SumSeq(timings[stage]), Len(timings[stage])),
         min |-> MinSeq(timings[stage]),
         max |-> MaxSeq(timings[stage]),
         total |-> SumSeq(timings[stage])]]

\* f * n for a fraction f and an integer n.
TimesInt(f, n) == TrueDiv(f.num * n, f.den)

\* A share that is not scaled to a percentage.
ShareOfTotal(elapsed, total_time) ==
    IF total_time > 0 THEN TrueDiv(elapsed, total_time) ELSE Zero

\* (elapsed / total_time * 100) if total_time > 0 else 0
Percentage(elapsed, total_time) ==
    IF total_time > 0 THEN TimesInt(TrueDiv(elapsed, total_time), 100) ELSE Zero

\* The entry of one stage, and the entry that is stored under "_total" last.
StageEntry(elapsed, total_time) ==
    [time_seconds |-> elapsed, time_ms |-> elapsed * 1000,
     percentage |-> Percentage(elapsed, total_time)]

TotalEntry(total_time) ==
    [time_seconds |-> total_time, time_ms |-> total_time * 1000,
     percentage |-> TrueDiv(100, 1)]

\* PerformanceTracker.get_timing_breakdown: the dict it returns (the order
\* of its keys, by elapsed, is not kept).
Breakdown(run, total_time) ==
    [stage \in DOMAIN run \cup {"_total"} |->
        IF stage = "_total" THEN TotalEntry(total_time)
        ELSE StageEntry(run[stage], total_time)]

GetTimingBreakdown ==
    IF DOMAIN current_run = {} THEN EmptyDict
    ELSE Breakdown(current_run, SumValues(current_run))

-----------------------------------------------------------------------------
(* EnhancedGraphRAG.forward, built with performance tracking               *)
(* (enable_performance_tracking=True, the default).  time.perf_counter()   *)
(* moves on while a hit is served from the cache; its other readings are   *)
(* the same as the one before.                                             *)

\* What the language model and the database give back.
GeneratedQueries == {"MATCH 1"}
RefinedQueries == {"MATCH 1", "MATCH 2"}
Answers == {"answer 1", "answer 2"}
ExecutionError == "Database execution error"
Contexts == {"rows", "No results found in the database.", ExecutionError}

\* The names forward gives to _track_stage, in the order of its scopes.
PipelineStages == <<"1_schema_retrieval", "2_cache_lookup", "3_schema_pruning",
                    "4_example_retrieval", "5_text2cypher_generation",
                    "6_query_validation_refinement", "7_query_execution",
                    "8_answer_generation", "9_cache_storage">>

\* bool(cached_result): None and the empty dict are false.
Truthy(ret) == ret # None /\ DOMAIN ret[1] # {}

\* A response that says it was served from the cache.
ResponseServed(question, query, answer) ==
    [question |-> question, query |-> query, answer |-> answer, cached |-> TRUE]

\* response = {"question": ..., "query": ..., "answer": ..., "cached": False}
Response(question, query, answer) ==
    [question |-> question, query |-> query, answer |-> answer, cached |-> FALSE]

\* cached_result['cached'] = True, on the dict stored under key.
MarkCached(c, key) == [c EXCEPT ![IndexOf(c, key)].val.cached = TRUE]

\* A start of forward that leaves the current run as it is.
CurrentRunKept(run) == run

\* self.performance_tracker.current_run.clear()
CurrentRunClear(run) == EmptyDict

\* self.timings[stage_name].append(elapsed) of the scopes left in one step;
\* samples is the sequence of their <<stage_name, elapsed>>.
RECURSIVE TimingsAfter(_, _)
TimingsAfter(t, samples) ==
    IF samples = <<>> THEN t
    ELSE TimingsAfter(AppendSample(t, Head(samples)[1], Head(samples)[2]),
                      Tail(samples))

\* self.current_run[stage_name] = elapsed of the scopes left in one step.
RECURSIVE CurrentRunAfter(_, _)
CurrentRunAfter(run, samples) ==
    IF samples = <<>> THEN run
    ELSE CurrentRunAfter(DictSet(run, Head(samples)[1], Head(samples)[2]),
                         Tail(samples))

\* EnhancedGraphRAG.__init__
PipelineStart ==
    /\ forward_pc = "idle"
    /\ forward_question = ""
    /\ schema_dict = <<>>
    /\ cached_result = None
    /\ cypher_query = ""
    /\ is_valid = FALSE
    /\ final_context = ""
    /\ forward_ret = None
    /\ forward_trace = <<>>

\* forward up to cached_result = self.cache.get(question, schema_dict): the
\* current run is cleared, the scope 1_schema_retrieval is entered and
\* left, and the scope 2_cache_lookup is entered.  An invocation that
\* misses makes a second cache call, and is begun only when the bound on
\* the calls leaves room for it.
ForwardLookup(question, schema) ==
    /\ forward_pc = "idle"
    /\ InCache(cache, GenerateKey(question, schema)) \/ ncalls + 2 <= MaxCalls
    /\ Get(question, schema)
    /\ forward_question' = question
    /\ schema_dict' = schema
    /\ cached_result' = last'.ret
    /\ cypher_query' = ""
    /\ is_valid' = FALSE
    /\ final_context' = ""
    /\ forward_ret' = None
    /\ forward_trace' = <<"cache.get">>
    /\ forward_pc' = "2_cache_lookup"
    /\ timings' = TimingsAfter(timings, <<<<PipelineStages[1], 0>>>>)
    /\ current_run' = CurrentRunAfter(CurrentRunClear(current_run),
                                      <<<<PipelineStages[1], 0>>>>)
    /\ stage_stack' = Append(stage_stack, <<PipelineStages[2], clock>>)
    /\ UNCHANGED <<clock, trackerLogVars>>

\* if cached_result: cached_result['cached'] = True; return cached_result,
\* which leaves the scope 2_cache_lookup, at now.
ForwardHit(now) ==
    /\ forward_pc = "2_cache_lookup"
    /\ Truthy(cached_result)
    /\ cache' = MarkCached(cache, GenerateKey(forward_question, schema_dict))
    /\ cached_result' =
           Some(Lookup(cache', GenerateKey(forward_question, schema_dict)))
    /\ forward_ret' = cached_result'
    /\ forward_pc' = "idle"
    /\ clock' = now
    /\ timings' = TimingsAfter(timings,
           <<<<PipelineStages[2], now - stage_stack[Len(stage_stack)][2]>>>>)
    /\ current_run' = CurrentRunAfter(current_run,
           <<<<PipelineStages[2], now - stage_stack[Len(stage_stack)][2]>>>>)
    /\ stage_stack' = SubSeq(stage_stack, 1, Len(stage_stack) - 1)
    /\ UNCHANGED <<max_size, hits, misses, last, prev, lru, ncalls, get_calls,
                   get_returns,
                   forward_question, schema_dict, cypher_query, is_valid,
                   final_context, forward_trace, notPipelineVars,
                   trackerLogVars>>

\* The end of the scope 2_cache_lookup after a miss and the scopes
\* 3_schema_pruning, 4_example_retrieval and 5_text2cypher_generation:
\* cypher_query = text2cypher_result.query.query
ForwardGenerate(query) ==
    /\ forward_pc = "2_cache_lookup"
    /\ ~Truthy(cached_result)
    /\ cypher_query' = query
    /\ forward_trace' = Append(forward_trace, "text2cypher")
    /\ forward_pc' = "6_query_validation_refinement"
    /\ LET samples ==
               << <<PipelineStages[2], clock - stage_stack[Len(stage_stack)][2]>>,
                  <<PipelineStages[3], 0>>,
                  <<PipelineStages[4], 0>>,
                  <<PipelineStages[5], 0>> >>
       IN  /\ timings' = TimingsAfter(timings, samples)
           /\ current_run' = CurrentRunAfter(current_run, samples)
    /\ stage_stack' = SubSeq(stage_stack, 1, Len(stage_stack) - 1)
    /\ UNCHANGED <<cacheVars, forward_question, schema_dict, cached_result,
                   is_valid, final_context, forward_ret, notPipelineVars,
                   clock, trackerLogVars>>

\* The scope 6_query_validation_refinement: refined_query, is_valid,
\* error_history = self.self_refinement.refine(cypher_query);
\* cypher_query = refined_query
ForwardRefine(refined_query, valid) ==
    /\ forward_pc = "6_query_validation_refinement"
    /\ cypher_query' = refined_query
    /\ is_valid' = valid
    /\ forward_trace' = Append(forward_trace, "refine")
    /\ forward_pc' = "7_query_execution"
    /\ timings' = TimingsAfter(timings, <<<<PipelineStages[6], 0>>>>)
    /\ current_run' = CurrentRunAfter(current_run, <<<<PipelineStages[6], 0>>>>)
    /\ UNCHANGED <<cacheVars, forward_question, schema_dict, cached_result,
                   final_context, forward_ret, notPipelineVars, stage_stack,
                   clock, trackerLogVars>>

\* The scope 7_query_execution: result = db_manager.conn.execute(
\* cypher_query), with the RuntimeError it may raise caught and turned into
\* the context.
ForwardExecute(context) ==
    /\ forward_pc = "7_query_execution"
    /\ final_context' = context
    /\ forward_trace' = Append(forward_trace, "execute")
    /\ forward_pc' = "8_answer_generation"
    /\ timings' = TimingsAfter(timings, <<<<PipelineStages[7], 0>>>>)
    /\ current_run' = CurrentRunAfter(current_run, <<<<PipelineStages[7], 0>>>>)
    /\ UNCHANGED <<cacheVars, forward_question, schema_dict, cached_result,
                   cypher_query, is_valid, forward_ret, notPipelineVars,
                   stage_stack, clock, trackerLogVars>>

\* The scopes 8_answer_generation and 9_cache_storage and the return: self.cache.set(question, schema_dict, response);
\* return response
ForwardStore(answer) ==
    /\ forward_pc = "8_answer_generation"
    /\ Set(forward_question, schema_dict,
           Response(forward_question, cypher_query, answer))
    /\ forward_ret' = Some(Response(forward_question, cypher_query, answer))
    /\ forward_trace' = forward_trace \o <<"generate_answer", "cache.set">>
    /\ forward_pc' = "idle"
    /\ LET samples == << <<PipelineStages[8], 0>>, <<PipelineStages[9], 0>> >>
       IN  /\ timings' = TimingsAfter(timings, samples)
           /\ current_run' = CurrentRunAfter(current_run, samples)
    /\ UNCHANGED <<forward_question, schema_dict, cached_result, cypher_query,
                   is_valid, final_context, stage_stack, clock,
                   trackerLogVars>>

\* The call of the scope forward stands before raises an exception forward
\* does not catch (refine, an execute error that is no
\* RuntimeError, the language model): the scope is left and forward ends.
ForwardRaises ==
    /\ forward_pc \in {"6_query_validation_refinement", "7_query_execution",
                       "8_answer_generation"}
    /\ forward_trace' = Append(forward_trace, "raised")
    /\ forward_pc' = "idle"
    /\ timings' = TimingsAfter(timings, <<<<forward_pc, 0>>>>)
    /\ current_run' = CurrentRunAfter(current_run, <<<<forward_pc, 0>>>>)
    /\ UNCHANGED <<cacheVars, forward_question, schema_dict, cached_result,
                   cypher_query, is_valid, final_context, forward_ret,
                   notPipelineVars, stage_stack, clock, trackerLogVars>>

-----
(* The specifications: each object on its own, the others idle.            *)

NoTrackerCallMade == tracker_last = NoTrackerCall

ValidateIdle ==
    /\ vs_query = <<>>
    /\ vs_ret = None
    /\ vs_outcome = None
    /\ executed = <<>>
    /\ invocations = 0

TrackerIdle ==
    /\ timings = <<>>
    /\ current_run = <<>>
    /\ stage_stack = <<>>
    /\ clock = 0
    /\ active = <<>>
    /\ NoTrackerCallMade
    /\ completed = <<>>
    /\ tracker_ops = 0
    /\ enclosed = <<>>
    /\ left_enclosed = {}

PipelineIdle ==
    /\ forward_pc = "off"
    /\ forward_question = ""
    /\ schema_dict = <<>>
    /\ cached_result = None
    /\ cypher_query = ""
    /\ is_valid = FALSE
    /\ final_context = ""
    /\ forward_ret = None
    /\ forward_trace = <<>>

CacheIdle ==
    /\ max_size = 0
    /\ cache = <<>>
    /\ hits = 0
    /\ misses = 0
    /\ last = NoCall
    /\ prev = NoCall
    /\ lru = <<>>
    /\ ncalls = 0
    /\ get_calls = 0
    /\ get_returns = 0

PostProcessIdle ==
    /\ raw_query = <<>>
    /\ once = None
    /\ twice = None
    /\ pp_pc = "idle"

RefineIdle ==
    /\ source_file = "cypher_validator.py"
    /\ max_attempts = 0
    /\ query_arg = <<>>
    /\ repair_fn = FALSE
    /\ current_query = <<>>
    /\ processed_query = None
    /\ error_history = <<>>
    /\ attempt = 0
    /\ error_msg = None
    /\ refine_pc = "idle"
    /\ refine_ret = None
    /\ exception = ""
    /\ verdicts = <<>>
    /\ explained = None
    /\ candidate = None
    /\ repairs = 0
    /\ heuristics = 0
    /\ repair_call = None

InitCache ==
    CacheStart /\ PostProcessIdle /\ RefineIdle /\ ValidateIdle /\ TrackerIdle
    /\ PipelineIdle

\* The calls made on a cache that stands alone.
NextCache ==
    \/ \E q \in Questions, s \in Schemas :
           Get(q, s) /\ UNCHANGED <<pipelineVars, trackerVars>>
    \/ \E q \in Questions, s \in Schemas, r \in Results :
           Set(q, s, r) /\ UNCHANGED <<pipelineVars, trackerVars>>
    \/ Clear /\ UNCHANGED <<pipelineVars, trackerVars>>
    \/ GetStatsCall
    \/ LenCall

SpecCache == InitCache /\ [][NextCache]_vars

InitPostProcess ==
    PostProcessStart /\ CacheIdle /\ RefineIdle /\ ValidateIdle /\ TrackerIdle
    /\ PipelineIdle

NextPostProcess ==
    \/ PostProcessOnce
    \/ PostProcessAgain

SpecPostProcess == InitPostProcess /\ [][NextPostProcess]_vars

InitRefine ==
    RefineStart /\ CacheIdle /\ PostProcessIdle /\ ValidateIdle /\ TrackerIdle
    /\ PipelineIdle

NextRefine ==
    \/ RefineNormalize
    \/ RefineExhausted
    \/ RefineValidates
    \/ RefineRepairs
    \/ RefineHeuristic

SpecRefine == InitRefine /\ [][NextRefine]_vars

InitValidate ==
    ValidateStart /\ CacheIdle /\ PostProcessIdle /\ RefineIdle /\ TrackerIdle
    /\ PipelineIdle

NextValidate == ValidateSyntaxCalls

SpecValidate == InitValidate /\ [][NextValidate]_vars

InitTracker ==
    TrackerStart /\ CacheIdle /\ PostProcessIdle /\ RefineIdle /\ ValidateIdle
    /\ PipelineIdle

NextTracker ==
    \/ TrackEnters
    \/ TrackExits
    \/ Reset
    \/ NewRun

SpecTracker == InitTracker /\ [][NextTracker]_vars

InitPipeline ==
    CacheStart /\ PipelineStart /\ PostProcessIdle /\ RefineIdle /\ ValidateIdle
    /\ TrackerIdle

NextPipeline ==
    \/ \E question \in Questions, schema \in Schemas :
           ForwardLookup(question, schema)
    \/ \E now \in clock..MaxClock : ForwardHit(now)
    \/ \E query \in GeneratedQueries : ForwardGenerate(query)
    \/ \E refined_query \in RefinedQueries, valid \in BOOLEAN :
           ForwardRefine(refined_query, valid)
    \/ \E context \in Contexts : ForwardExecute(context)
    \/ \E answer \in Answers : ForwardStore(answer)
    \/ ForwardRaises

SpecPipeline == InitPipeline /\ [][NextPipeline]_vars

-----------------------------------------------------------------------------
(* Claims about the cache.                                                 *)

\* Two schema dicts are equal when they hold the same items.
DictEq(a, b) == {a[i] : i \in 1..Len(a)} = {b[i] : i \in 1..Len(b)}

\* The step is a call of get / of set.
IsGetStep == ncalls' = ncalls + 1 /\ last'.op = "get"
IsSetStep == ncalls' = ncalls + 1 /\ last'.op = "set"

\* The step is a get with the pair of the set that was the call before it.
GetRightAfterSet ==
    /\ IsGetStep
    /\ last.op = "set"
    /\ last'.question = last.question
    /\ DictEq(last'.schema, last.schema)

\* C1 as stated: in any reachable cache state, a get(question, schema)
\* right after set(question, schema, entry) returns that entry, increases
\* hits by exactly one and leaves misses unchanged.
C1_GetAfterSetHits ==
    [][GetRightAfterSet =>
         /\ last'.ret = last.result
         /\ hits' = hits + 1
         /\ misses' = misses]_vars

\* C1 amended: the same, for a cache whose capacity max_size is at least 1
\* (a cache of capacity 0 evicts the entry in the set that stored it).
C1_GetAfterSetHitsPositiveCapacity ==
    [][(GetRightAfterSet /\ max_size >= 1) =>
         /\ last'.ret = last.result
         /\ hits' = hits + 1
         /\ misses' = misses]_vars

\* A get has just hit the entry that the call before it stored, the set
\* having been made with the fields of the schema in the other order.
C1_Witness ==
    /\ last.op = "get"
    /\ prev.op = "set"
    /\ last.question = prev.question
    /\ DictEq(last.schema, prev.schema)
    /\ last.schema # prev.schema
    /\ last.ret = prev.result
    /\ hits = 1

\* C2: after any sequence of get, set and clear the number of stored
\* entries is at most the configured capacity max_size.
C2_SizeAtMostCapacity == Len(cache) <= max_size

\* A set has just evicted an entry from a full cache of the largest capacity.
C2_Witness ==
    /\ last.op = "set"
    /\ last.evicted # {}
    /\ max_size = MaxCapacity
    /\ Len(cache) = max_size

\* C3: a set that inserts a new key into a cache already at capacity evicts
\* exactly one entry, the one whose last access (get hit or set) is the
\* oldest; a set below capacity or of a stored key evicts nothing.
C3_EvictsLeastRecentlyAccessed ==
    [][IsSetStep =>
         LET key == GenerateKey(last'.question, last'.schema)
             gone == (Keys(cache) \cup {key}) \ Keys(cache')
         IN  IF key \notin Keys(cache) /\ Len(cache) = max_size
             THEN gone = {Head(Touch(lru, key))}
             ELSE gone = {} /\ Keys(cache') = Keys(cache) \cup {key}]_vars

\* The example of C3: capacity 2, set(A); set(B); get(A); set(C) leaves
\* exactly A and C, A being the older of the two.
C3_Witness ==
    /\ max_size = 2
    /\ ncalls = 4
    /\ last.op = "set"
    /\ prev.op = "get"
    /\ prev.ret # None
    /\ Cardinality(last.evicted) = 1
    /\ KeyOrder(cache) = <<GenerateKey(prev.question, prev.schema),
                           GenerateKey(last.question, last.schema)>>

\* C10: a get of a stored key adds one to hits, leaves misses, makes the
\* entry the most recently used and changes neither the stored keys nor any
\* entry's content; a get of an absent key adds one to misses, leaves hits,
\* returns None and leaves the entries and their order unchanged.
C10_GetFrame ==
    [][IsGetStep =>
         LET key == GenerateKey(last'.question, last'.schema)
         IN  IF key \in Keys(cache)
             THEN /\ hits' = hits + 1
                  /\ misses' = misses
                  /\ cache'[Len(cache')].key = key
                  /\ Keys(cache') = Keys(cache)
                  /\ \A k \in Keys(cache) : Lookup(cache', k) = Lookup(cache, k)
                  /\ last'.ret = Some(Lookup(cache, key))
             ELSE /\ misses' = misses + 1
                  /\ hits' = hits
                  /\ last'.ret = None
                  /\ cache' = cache]_vars

\* A get has hit the older of two stored entries, right after a get that
\* missed.
C10_Witness ==
    /\ last.op = "get"
    /\ last.ret # None
    /\ prev.op = "get"
    /\ prev.ret = None
    /\ Len(cache) = 2
    /\ hits = 1
    /\ misses = 1
    /\ ncalls = 4

\* The step is a call of clear.
IsClearStep == ncalls' = ncalls + 1 /\ last'.op = "clear"

\* C11: a set on a key that is already stored replaces its entry, makes it
\* the most recently used, leaves the size and the other entries unchanged
\* and evicts nothing; and no set, insert or overwrite, changes hits or
\* misses.
C11_OverwriteFrame ==
    [][IsSetStep =>
         LET key == GenerateKey(last'.question, last'.schema)
         IN  /\ hits' = hits
             /\ misses' = misses
             /\ key \in Keys(cache) =>
                   /\ Some(Lookup(cache', key)) = last'.result
                   /\ cache'[Len(cache')].key = key
                   /\ Len(cache') = Len(cache)
                   /\ Keys(cache') = Keys(cache)
                   /\ \A k \in Keys(cache) \ {key} :
                         Lookup(cache', k) = Lookup(cache, k)]_vars

\* Two sets in a row on the same key with different entries, the second
\* made after a hit and a miss were counted: the cache of two entries holds
\* the second entry for that key, as its newest.
C11_Witness ==
    /\ last.op = "set"
    /\ prev.op = "set"
    /\ GenerateKey(last.question, last.schema)
         = GenerateKey(prev.question, prev.schema)
    /\ last.result # prev.result
    /\ last.evicted = {}
    /\ Len(cache) = 2
    /\ cache[2].key = GenerateKey(last.question, last.schema)
    /\ Some(cache[2].val) = last.result

\* C12: in every reachable state get_stats reports hit_rate = 0 when
\* hits + misses = 0 and hit_rate = hits / (hits + misses) otherwise, and
\* size = the number of stored entries.
C12_StatsHitRate ==
    /\ GetStats.size = Cardinality(Keys(cache))
    /\ IF hits + misses = 0
       THEN GetStats.hit_rate = Zero
       ELSE /\ GetStats.hit_rate.den > 0
            /\ GetStats.hit_rate.num * (hits + misses)
                 = hits * GetStats.hit_rate.den

\* Two hits and one miss: get_stats reports the rate 2/3 and the size 1.
C12_Witness ==
    /\ hits = 2
    /\ misses = 1
    /\ GetStats.hit_rate = [num |-> 2, den |-> 3]
    /\ GetStats.size = 1

\* C13: after clear the cache holds no entries and hits = misses = 0,
\* whatever the state before; a get right after clear is a miss.
C13_ClearResets ==
    [][/\ IsClearStep => cache' = <<>> /\ hits' = 0 /\ misses' = 0
       /\ (IsGetStep /\ last.op = "clear") =>
             last'.ret = None /\ hits' = 0 /\ misses' = 1 /\ cache' = <<>>]_vars

\* A clear made right after a get that hit: the storage and both counters
\* were not empty before it.
C13_Witness ==
    /\ last.op = "clear"
    /\ prev.op = "get"
    /\ prev.ret # None
    /\ cache = <<>>
    /\ hits = 0
    /\ misses = 0

\* The step is a get whose schema holds the items of the schema of the set
\* made just before it, listed in another order.
GetReorderedAfterSet == GetRightAfterSet /\ last'.schema # last.schema

\* C14 as stated: for every question and every two schemas that are equal as
\* mappings and list their fields in different orders the derived keys are
\* equal, and a set with one followed by a get with the other is a hit.
C14_KeyIgnoresFieldOrder ==
    /\ [](\A q \in Questions, s1 \in Schemas, s2 \in Schemas :
            DictEq(s1, s2) => GenerateKey(q, s1) = GenerateKey(q, s2))
    /\ [][GetReorderedAfterSet =>
            /\ last'.ret = last.result
            /\ hits' = hits + 1]_vars

\* C14 amended: the keys are equal, and the get is a hit in a cache whose
\* capacity max_size is at least 1.
C14_KeyIgnoresFieldOrderPositiveCapacity ==
    /\ [](\A q \in Questions, s1 \in Schemas, s2 \in Schemas :
            DictEq(s1, s2) => GenerateKey(q, s1) = GenerateKey(q, s2))
    /\ [][(GetReorderedAfterSet /\ max_size >= 1) =>
            /\ last'.ret = last.result
            /\ hits' = hits + 1]_vars

\* A set with SchemaAB in a cache of the largest capacity, then a get with
\* SchemaBA that returned the entry.
C14_Witness ==
    /\ max_size = MaxCapacity
    /\ prev.op = "set"
    /\ prev.schema = SchemaAB
    /\ last.op = "get"
    /\ last.schema = SchemaBA
    /\ last.question = prev.question
    /\ last.ret = prev.result

\* C35: hits + misses is the number of get calls made since construction
\* or the last clear, and hits is the number of those that returned an
\* entry; as set, get_stats and len make no get call, they leave both
\* counters as they are.
C35_CountersCountGets ==
    /\ hits + misses = get_calls
    /\ hits = get_returns

\* A get has missed, a set has stored, a get has hit, and the statistics
\* were read as the last call.
C35_Witness ==
    /\ last.op = "get_stats"
    /\ prev.op = "get"
    /\ prev.ret # None
    /\ hits = 1
    /\ misses = 1
    /\ ncalls = 4
    /\ last.ret[1].hits = 1
    /\ last.ret[1].misses = 1

-----------------------------------------------------------------------------
(* Claims about post_process.                                              *)

\* C4: post_process is idempotent: post_process(post_process(q)) equals
\* post_process(q) for every query text q, texts with two or more
\* rewritable comparisons included.
C4_PostProcessIdempotent == pp_pc = "twice" => twice = once

\* The comparisons of text s that pattern matches, each starting at the
\* start of its identifier and with no case-folding call in the lookback
\* window before it in s.
UnwrappedComparisons(pattern, s) ==
    {m \in Range(FindIter(pattern, s)) :
        /\ m.start = 1 \/ s[Max(1, m.start - 1)] \notin WordChars
        /\ ~LowerBefore(s, m.start)}

\* C9: for every comparison identifier.identifier = 'literal' or
\* identifier.identifier CONTAINS 'literal' of the input that is not wrapped
\* in a case-folding call, the output of post_process holds
\* lower(identifier.identifier) CONTAINS 'literal', the literal as written,
\* also when the query holds several such comparisons.
C9_EveryComparisonRewritten ==
    pp_pc = "once" =>
        \A pattern \in Range(Patterns) :
            \A m \in UnwrappedComparisons(pattern, Strip(raw_query)) :
                Contains(once[1], Expand(Strip(raw_query), m))

RECURSIVE RewrittenInPlaceFrom(_, _, _, _)
\* The text s from position from on, in which the matches k, k+1, ... are
\* rewritten where they stand, those left out that have a case-folding call
\* in the lookback window before them in s itself.
RewrittenInPlaceFrom(s, matches, k, from) ==
    IF k > Len(matches) THEN SubSeq(s, from, Len(s))
    ELSE SubSeq(s, from, matches[k].start - 1)
         \o (IF LowerBefore(s, matches[k].start) THEN Group0(s, matches[k])
             ELSE Expand(s, matches[k]))
         \o RewrittenInPlaceFrom(s, matches, k + 1, matches[k].close + 1)

RewrittenInPlace(pattern, s) == RewrittenInPlaceFrom(s, FindIter(pattern, s), 1, 1)

\* C24: a rewrite is applied only at the position of the match that triggered
\* it, judged against the text the matches were found in: in the output of
\* post_process a comparison with a case-folding call in the lookback window
\* before it in that text stands as it was, also when the same comparison
\* text occurs elsewhere unwrapped, and a comparison without one is rewritten
\* where it stands, whatever an earlier rewrite inserted before it.
C24_RewritesAtMatchPositions ==
    pp_pc = "once" =>
        once[1] = ReplaceAll(
                      CollapseWhitespace(
                          RewrittenInPlace(Patterns[2],
                              RewrittenInPlace(Patterns[1], Strip(raw_query)))),
                      TextToLowerCall, TextLowerCall)

\* C25: the projection step of post_process returns the text it is given,
\* unchanged, whatever the RETURN clause holds (bare identifiers, property
\* accesses, calls, empty items as after a trailing or doubled comma), and
\* never raises.
C25_ProjectionStepReturnsInput ==
    pp_pc # "start" =>
        /\ ~FixReturnProjectionRaises(EnforceLowercaseComparisons(Strip(raw_query)))
        /\ FixReturnProjection(EnforceLowercaseComparisons(Strip(raw_query)))
               = EnforceLowercaseComparisons(Strip(raw_query))

\* The positions of text s where a call of the case-folding function under
\* another name than lower starts: to_lower( or toLower(, in any letter case.
AlternateSpellings(s) ==
    {i \in 1..Len(s) :
        \/ StartsWithAtCI(s, i, TextToLowerCall)
        \/ StartsWithAtCI(s, i, FragToLowerCamel)}

\* C26: the output of post_process holds no call of the case-folding function
\* under an alternate spelling: no to_lower(, no toLower(, in any letter case.
C26_OnlyCanonicalCaseFold ==
    pp_pc = "once" => AlternateSpellings(once[1]) = {}

-----------------------------------------------------------------------------
(* Claims about refine.                                                    *)

\* C5: refine never raises: for every query text, every behaviour of the
\* backend, every max_attempts >= 0, with and without a repair function, it
\* returns a triple (query, validity flag, error history).
C5_RefineNeverRaises == refine_pc # "raised"

\* C6: if the backend accepts the normalized form of the initial query (the
\* first dry-run succeeds), refine returns (post_process(query), True, [])
\* after exactly one validate_syntax call and without any repair.
C6_ValidOnFirstAttempt ==
    (Len(verdicts) >= 1 /\ verdicts[1]) =>
        /\ refine_pc = "returned"
        /\ refine_ret = Some(<<PostProcess(query_arg), TRUE, <<>> >>)
        /\ Len(verdicts) = 1
        /\ repairs = 0
        /\ heuristics = 0

\* refine has returned after one accepted dry-run, and the text it returns
\* is not the text it was given.
C6_Witness ==
    /\ refine_pc = "returned"
    /\ verdicts = <<TRUE>>
    /\ refine_ret[1][1] # query_arg
    /\ max_attempts = MaxAttempts

\* C7: if every dry-run fails, refine returns after exactly max_attempts
\* iterations with is_valid = False and an error history of length
\* max_attempts.
C7_AllFailReturnsAfterMaxAttempts ==
    (refine_pc \in {"returned", "raised"}
        /\ \A i \in 1..Len(verdicts) : ~verdicts[i]) =>
            /\ refine_pc = "returned"
            /\ refine_ret[1][2] = FALSE
            /\ Len(refine_ret[1][3]) = max_attempts
            /\ Len(verdicts) = max_attempts

\* C8: on the success and on the failure path the query refine returns is
\* post_process of the candidate of the last executed iteration, the text
\* last given to validate_syntax.
C8_ReturnsLastNormalized ==
    refine_pc = "returned" =>
        /\ refine_ret[1][1] = PostProcess(candidate[1])
        /\ explained = Some(ExplainQuery(refine_ret[1][1]))

\* refine has returned a failure after at least two iterations; the last
\* repair changed the candidate, and normalisation changed the text of the
\* last iteration.
C8_Witness ==
    /\ refine_pc = "returned"
    /\ refine_ret[1][2] = FALSE
    /\ Len(error_history) >= 2
    /\ current_query # candidate[1]
    /\ refine_ret[1][1] # candidate[1]
    /\ refine_ret[1][1] # current_query

\* C27: refine makes at most max_attempts validate_syntax calls and makes
\* none after one that succeeded; the history it returns holds one entry per
\* failed validation, in the order of the attempts, labelled 1, 2, ... and
\* carrying that attempt's diagnostic, so its length is the number of
\* validations minus one on success and that number on failure.
C27_ValidationsAndHistory ==
    /\ Len(verdicts) <= max_attempts
    /\ \A i \in 1..(Len(verdicts) - 1) : ~verdicts[i]
    /\ (Len(verdicts) >= 1 /\ verdicts[Len(verdicts)]) => refine_pc = "returned"
    /\ (Len(verdicts) >= 1 /\ ~verdicts[Len(verdicts)]) =>
           /\ Len(error_history) = Len(verdicts)
           /\ error_history[Len(verdicts)]
                  = <<"Attempt", Len(verdicts), error_msg[1]>>
    /\ refine_pc = "returned" =>
           /\ refine_ret[1][3] = error_history
           /\ Len(refine_ret[1][3])
                  = Cardinality({i \in 1..Len(verdicts) : ~verdicts[i]})
           /\ \A k \in 1..Len(refine_ret[1][3]) :
                  /\ refine_ret[1][3][k][1] = "Attempt"
                  /\ refine_ret[1][3][k][2] = k
           /\ Len(refine_ret[1][3])
                  = IF refine_ret[1][2] THEN Len(verdicts) - 1 ELSE Len(verdicts)

\* refine has returned a success at the last of max_attempts validations,
\* after two that failed with different diagnostics.
C27_Witness ==
    /\ refine_pc = "returned"
    /\ refine_ret[1][2] = TRUE
    /\ max_attempts = MaxAttempts
    /\ verdicts = <<FALSE, FALSE, TRUE>>
    /\ Len(refine_ret[1][3]) = 2
    /\ refine_ret[1][3][1][3] # refine_ret[1][3][2][3]

\* The number of validations that failed so far.
FailedValidations == Cardinality({i \in 1..Len(verdicts) : ~verdicts[i]})

\* C28: with a repair function, each failed validation is followed by one
\* call of it with the candidate as it was before normalisation and that
\* attempt's diagnostic, its result is the next candidate, and the built-in
\* heuristics are never applied; without one, each failed validation is
\* followed by the built-in heuristics applied to the candidate as it was
\* before normalisation.
C28_RepairAfterFailedValidation ==
    /\ repair_fn => heuristics = 0
    /\ ~repair_fn => repairs = 0 /\ repair_call = None
    /\ refine_pc \in {"loop", "returned", "raised"} =>
           IF repair_fn THEN repairs = FailedValidations
           ELSE heuristics = FailedValidations
    /\ (refine_pc = "loop" /\ attempt >= 1) =>
           IF repair_fn
           THEN repair_call = Some([query |-> candidate[1],
                                    error_msg |-> error_msg[1],
                                    ret |-> current_query])
           ELSE current_query = ApplyHeuristicRepairs(candidate[1], error_msg[1])

\* C32: in refine the repair step, the caller's function or the built-in
\* heuristics, runs once after every failed validation, the one of the last
\* permitted attempt included: on return the number of repairs made is the
\* length of the error history, and after a failure the output of the last
\* repair has been neither normalised nor validated, nor is it what refine
\* returns, which is the normalised form of the candidate that repair was
\* given.
C32_RepairAfterLastAttempt ==
    /\ (refine_pc = "returned"
          \/ (source_file = "cypher_validator.py" /\ refine_pc # "repair")) =>
           /\ repairs + heuristics = Len(error_history)
           /\ repairs + heuristics = FailedValidations
    /\ (refine_pc = "returned" /\ ~refine_ret[1][2]) =>
           /\ repairs + heuristics = max_attempts
           /\ Len(verdicts) = repairs + heuristics
           /\ IF repair_fn
              THEN repair_call = Some([query |-> candidate[1],
                                       error_msg |-> error_msg[1],
                                       ret |-> current_query])
              ELSE current_query = ApplyHeuristicRepairs(candidate[1], error_msg[1])
           /\ processed_query = Some(PostProcess(candidate[1]))
           /\ explained = Some(ExplainQuery(PostProcess(candidate[1])))
           /\ refine_ret[1][1] = PostProcess(candidate[1])

\* refine has returned a failure after three attempts without a repair
\* function: the heuristics ran three times, the last time on a candidate
\* they changed, and the text returned is neither their last output nor its
\* normalised form.
C32_Witness ==
    /\ refine_pc = "returned"
    /\ refine_ret[1][2] = FALSE
    /\ ~repair_fn
    /\ max_attempts = 3
    /\ heuristics = 3
    /\ Len(refine_ret[1][3]) = 3
    /\ current_query # candidate[1]
    /\ refine_ret[1][1] # current_query
    /\ ~PostProcessRaises(current_query)
    /\ refine_ret[1][1] # PostProcess(current_query)

\* str.rstrip()
RStrip(s) ==
    LET keep == {i \in 1..Len(s) : s[i] \notin Whitespace}
    IN  IF keep = {} THEN <<>>
        ELSE SubSeq(s, 1, CHOOSE i \in keep : \A j \in keep : j <= i)

\* Text s ends with one statement terminator: blanks at the end apart, its
\* last character is ';' and what stands before that one does not end with
\* another.
EndsWithOneTerminator(s) ==
    /\ RStrip(s) # <<>>
    /\ RStrip(s)[Len(RStrip(s))] = ";"
    /\ LET before == RStrip(SubSeq(RStrip(s), 1, Len(RStrip(s)) - 1))
       IN  before = <<>> \/ before[Len(before)] # ";"

\* C29: when the diagnostic mentions a missing semicolon, the candidate the
\* built-in heuristic repair yields ends with exactly one statement
\* terminator, whatever the candidate was (terminated, terminated several
\* times, followed by blanks), and the repair applied to it again with the
\* same diagnostic yields it unchanged.
C29_SemicolonRepair ==
    (/\ refine_pc = "loop"
     /\ attempt >= 1
     /\ ~repair_fn
     /\ Contains(ToLower(error_msg[1]), TextSemicolon)) =>
        /\ EndsWithOneTerminator(current_query)
        /\ ApplyHeuristicRepairs(current_query, error_msg[1]) = current_query

-----------------------------------------------------------------------------
(* Claims about validate_syntax.                                           *)

\* C15: validate_syntax makes exactly one backend call per invocation, on
\* the query wrapped as an EXPLAIN dry-run and never on the bare query; if
\* that call fails it returns (false, error message) without raising, and
\* if it succeeds it returns (true, absent).
C15_OneExplainCallPerInvocation ==
    [][invocations' = invocations + 1 =>
         /\ Len(executed') = Len(executed) + 1
         /\ SubSeq(executed', 1, Len(executed)) = executed
         /\ executed'[Len(executed')] = TextExplain \o vs_query'
         /\ executed'[Len(executed')] # vs_query'
         /\ vs_ret' = IF vs_outcome' = None
                       THEN Some(<<TRUE, None>>)
                       ELSE Some(<<FALSE, vs_outcome'>>)]_vars

\* Three calls were made and the backend was given three EXPLAIN texts; the
\* last call, whose dry-run failed, returned (false, message).
C15_Witness ==
    /\ invocations = 3
    /\ Len(executed) = 3
    /\ vs_ret = Some(<<FALSE, Some(ErrorBinder)>>)
    /\ executed[3] = TextExplain \o RefineQueryApoc

-----------------------------------------------------------------------------
(* Claims about the tracker.                                               *)

\* The samples recorded for a stage, none when the stage has no series.
SeriesOf(d, stage) == IF stage \in DOMAIN d THEN d[stage] ELSE <<>>

\* C33: in every state of the tracker, whatever scopes were entered and
\* left and whatever reset and the clearing of the current run did, each
\* stage of the current-run map has a series that is not empty and whose
\* last sample is the stage's value in the map; the map holds one value for
\* a stage however often the stage was timed, and the series holds them all.
C33_CurrentRunIsLastSample ==
    \A stage \in DOMAIN current_run :
        /\ stage \in DOMAIN timings
        /\ timings[stage] # <<>>
        /\ timings[stage][Len(timings[stage])] = current_run[stage]
        /\ Len(timings[stage]) <= Len(SeriesOf(completed, stage))

\* Besides a reset or a clearing of the current run, one stage was timed
\* twice with different results: the map holds the second, the series both.
C33_Witness ==
    /\ tracker_last.op = "exit"
    /\ tracker_last.raised = ""
    /\ tracker_ops = 3
    /\ active = <<>>
    /\ DOMAIN current_run = {"2_cache_lookup"}
    /\ Len(timings["2_cache_lookup"]) = 2
    /\ timings["2_cache_lookup"][1] # timings["2_cache_lookup"][2]
    /\ current_run["2_cache_lookup"] = timings["2_cache_lookup"][2]

\* The step leaves a track_stage scope.
IsExitStep == Len(active') < Len(active)

\* C34: while there is no reset, however the entries and exits of scopes
\* interleave, nested or overlapping without nesting, the stage stack is as
\* long as the number of scopes that are open, so empty when none is, and
\* the exit of a scope records the time of that exit less the time of that
\* scope's own entry, whichever element of the stack it removed.
C34_StackCountsOpenScopes ==
    [][(Len(stage_stack) = Len(active) /\ tracker_last'.op # "reset") =>
          /\ Len(stage_stack') = Len(active')
          /\ active' = <<>> => stage_stack' = <<>>
          /\ IsExitStep =>
                \E i \in 1..Len(active) :
                    /\ active' = SubSeq(active, 1, i - 1)
                                     \o SubSeq(active, i + 1, Len(active))
                    /\ tracker_last'.raised = ""
                    /\ tracker_last'.elapsed = clock' - active[i].start_time
                    /\ timings' = AppendSample(timings, active[i].stage_name,
                                               clock' - active[i].start_time)
                    /\ current_run' = DictSet(current_run, active[i].stage_name,
                                              clock' - active[i].start_time)
                    /\ stage_stack' = SubSeq(stage_stack, 1, Len(stage_stack) - 1)
      ]_vars

\* The first stage was entered at 0 and the second at 1, and the first was
\* left at 1 while the second was open: its sample is 1, and what remains
\* on the stack is the first stage's element.
C34_Witness ==
    /\ tracker_last.op = "exit"
    /\ tracker_last.stage = "1_schema_retrieval"
    /\ tracker_last.elapsed = 1
    /\ active = <<[stage_name |-> "2_cache_lookup", start_time |-> 1]>>
    /\ stage_stack = << <<"1_schema_retrieval", 0>> >>
    /\ timings = DictSet(EmptyDict, "1_schema_retrieval", <<1>>)

\* C16: leaving a track_stage scope, by normal completion or by a failure of
\* the enclosed work, appends exactly one elapsed sample to the series of
\* that stage, changes no other series and overwrites the stage's entry of
\* the current run with the sample; a failure of the enclosed work still
\* propagates to the caller.
C16_ExitRecordsOneSample ==
    [][IsExitStep =>
         LET stage == tracker_last'.stage
             elapsed == tracker_last'.elapsed
         IN  /\ DOMAIN timings' = DOMAIN timings \cup {stage}
             /\ \A k \in DOMAIN timings' :
                   timings'[k] = IF k = stage
                                 THEN Append(SeriesOf(timings, stage), elapsed)
                                 ELSE timings[k]
             /\ DOMAIN current_run' = DOMAIN current_run \cup {stage}
             /\ \A k \in DOMAIN current_run' :
                   current_run'[k] = IF k = stage THEN elapsed
                                     ELSE current_run[k]
             /\ tracker_last'.failed => tracker_last'.propagated]_vars

\* a + b for two fractions.
FracAdd(a, b) == TrueDiv(a.num * b.den + b.num * a.den, a.den * b.den)

\* The sum of the percentages of the entries of a breakdown under keys.
RECURSIVE SumPercentages(_, _)
SumPercentages(breakdown, keys) ==
    IF keys = {} THEN Zero
    ELSE LET k == CHOOSE x \in keys : TRUE
         IN  FracAdd(breakdown[k].percentage,
                     SumPercentages(breakdown, keys \ {k}))

\* The percentages of the entries other than _total sum to 100, and the
\* seconds of _total are the sum of the elapsed values of the current run.
BreakdownAddsUp ==
    /\ SumPercentages(GetTimingBreakdown, DOMAIN GetTimingBreakdown \ {"_total"})
         = TrueDiv(100, 1)
    /\ GetTimingBreakdown["_total"].time_seconds = SumValues(current_run)

C18_ResetEmptiesStatistics ==
    tracker_last.op = "reset" =>
        /\ GetStatistics = EmptyDict
        /\ DOMAIN GetStatistics = {}
        /\ GetCurrentRun = EmptyDict

\* A reset made as the second call, after a scope was entered and left (the
\* clock has moved and no scope is active): a sample had been recorded.
C18_Witness ==
    /\ tracker_last.op = "reset"
    /\ tracker_ops = 2
    /\ clock > 0
    /\ active = <<>>
    /\ DOMAIN timings = {}

\* C19: for every stage name get_statistics reports count = the number of
\* track_stage scopes of that name left since construction or the last
\* reset, whatever the run, total = the sum of their elapsed values, min and
\* max = the smallest and the largest of them and mean = total / count; a
\* stage without such a scope is not reported.
C19_StatisticsOverAllScopes ==
    \A stage \in StageNames :
        LET done == SeriesOf(completed, stage)
            range == {done[i] : i \in 1..Len(done)}
        IN  IF done = <<>> THEN stage \notin DOMAIN GetStatistics
            ELSE /\ stage \in DOMAIN GetStatistics
                 /\ GetStatistics[stage].count = Len(done)
                 /\ GetStatistics[stage].total = SumSeq(done)
                 /\ GetStatistics[stage].min \in range
                 /\ GetStatistics[stage].max \in range
                 /\ \A x \in range : /\ GetStatistics[stage].min <= x
                                      /\ x <= GetStatistics[stage].max
                 /\ GetStatistics[stage].mean.num * Len(done)
                      = SumSeq(done) * GetStatistics[stage].mean.den

\* C20: no sequence of tracker operations makes a tracker operation raise,
\* reset while stages are active included; get_timing_breakdown on an
\* empty current run returns an empty structure.
C20_TrackerNeverRaises ==
    /\ tracker_last.raised = ""
    /\ DOMAIN current_run = {} => GetTimingBreakdown = EmptyDict

\* C30: with a clock that never goes back, when a scope of one stage is
\* entered and left inside the scope of another stage, both are recorded,
\* the inner one in the series of its own stage; the elapsed value recorded
\* for the outer stage is its whole span, with nothing taken off, and so is
\* at least the one recorded for the inner stage.
C30_NestedTimeCountedTwice ==
    tracker_last.op = "exit" =>
        \A inner \in left_enclosed :
            inner.stage_name # tracker_last.stage =>
                /\ inner.recorded
                /\ inner.stage_name \in DOMAIN timings
                /\ inner.elapsed \in Range(timings[inner.stage_name])
                /\ tracker_last.raised = ""
                /\ tracker_last.stage \in DOMAIN timings
                /\ timings[tracker_last.stage][Len(timings[tracker_last.stage])]
                       = tracker_last.elapsed
                /\ tracker_last.elapsed >= inner.elapsed

-----------------------------------------------------------------------------
(* Claims about the pipeline.                                              *)

\* C21: the content of a stored entry stays as it is from the set that
\* stored it to its eviction, overwrite or clear: a step that is not a set
\* under the entry's key (a get, the return of the pipeline on a cache hit)
\* leaves every field of every entry that stays stored, the flag cached
\* included.
C21_StoredEntryUnchanged ==
    [][\A key \in Keys(cache) \cap Keys(cache') :
          \/ IsSetStep /\ GenerateKey(last'.question, last'.schema) = key
          \/ Lookup(cache', key) = Lookup(cache, key)]_vars

\* C22: the pipeline calls cache.set only in an invocation that missed the
\* cache, whose refined query refine reported valid and whose query
\* execution did not fail.
C22_WritesOnlyAfterSuccess ==
    (forward_trace # <<>> /\ forward_trace[Len(forward_trace)] = "cache.set") =>
        /\ ~Truthy(cached_result)
        /\ is_valid
        /\ final_context # ExecutionError

\* C23: an invocation consults the cache before anything else.  On a hit it
\* returns the stored result with the flag cached set, and calls neither
\* the generation, nor refine, nor the query execution, nor cache.set.  On a
\* miss the response, which holds the refined query and the flag cached
\* unset, is given to cache.set with the question and the schema of the
\* lookup, and returned.
C23_LookupThenHitOrStore ==
    /\ forward_trace # <<>> => forward_trace[1] = "cache.get"
    /\ (forward_pc = "idle" /\ forward_ret # None) =>
           IF Truthy(cached_result)
           THEN /\ forward_trace = <<"cache.get">>
                /\ last.op = "get"
                /\ last.question = forward_question
                /\ last.schema = schema_dict
                /\ last.ret # None
                /\ forward_ret[1] = [last.ret[1] EXCEPT !.cached = TRUE]
           ELSE /\ forward_trace = <<"cache.get", "text2cypher", "refine",
                                     "execute", "generate_answer", "cache.set">>
                /\ prev.op = "get"
                /\ prev.ret = None
                /\ last.op = "set"
                /\ last.question = prev.question
                /\ last.schema = prev.schema
                /\ last.question = forward_question
                /\ last.result = forward_ret
                /\ forward_ret[1].question = forward_question
                /\ forward_ret[1].query = cypher_query
                /\ forward_ret[1].cached = FALSE

\* An invocation has returned from the cache what the invocation before it
\* stored: a response with the refined query, stored with the flag unset.
C23_Witness ==
    /\ forward_pc = "idle"
    /\ forward_ret # None
    /\ Truthy(cached_result)
    /\ prev.op = "set"
    /\ prev.result[1].cached = FALSE
    /\ prev.result[1].query \notin GeneratedQueries
    /\ forward_ret[1].cached
    /\ forward_ret[1].query = prev.result[1].query
    /\ hits = 1
    /\ misses = 1

\* The number of scopes the latest invocation of forward has left: those
\* before the call it stands at while it runs, the first two after a hit,
\* all nine after a store, and those up to the one that raised otherwise.
ScopesLeft ==
    IF forward_pc = "2_cache_lookup" THEN 1
    ELSE IF forward_pc = "6_query_validation_refinement" THEN 5
    ELSE IF forward_pc = "7_query_execution" THEN 6
    ELSE IF forward_pc = "8_answer_generation" THEN 7
    ELSE IF forward_trace = <<>> THEN 0
    ELSE IF forward_trace = <<"cache.get">> THEN 2
    ELSE IF forward_trace[Len(forward_trace)] = "cache.set" THEN 9
    ELSE Len(forward_trace) + 3

\* C31: forward clears the current-run map when it starts, so whatever
\* invocations came before, hits and misses, the map holds the stages whose
\* scopes the latest invocation has left, each with the last sample of its
\* series: after a hit only 1_schema_retrieval and 2_cache_lookup; the
\* series hold one sample for each invocation that left the stage.
C31_CurrentRunOfLatestInvocation ==
    /\ DOMAIN current_run = {PipelineStages[k] : k \in 1..ScopesLeft}
    /\ \A stage \in DOMAIN current_run :
           /\ stage \in DOMAIN timings
           /\ timings[stage][Len(timings[stage])] = current_run[stage]
    /\ (forward_pc = "idle" /\ forward_trace = <<"cache.get">>) =>
           DOMAIN current_run = {"1_schema_retrieval", "2_cache_lookup"}
    /\ Len(SeriesOf(timings, "1_schema_retrieval")) = get_calls
    /\ Len(SeriesOf(timings, "2_cache_lookup"))
           = IF forward_pc = "2_cache_lookup" THEN get_calls - 1 ELSE get_calls
    /\ forward_pc = "idle" =>
           \A k \in 3..5 : Len(SeriesOf(timings, PipelineStages[k])) = misses
    /\ Len(SeriesOf(timings, "9_cache_storage")) = ncalls - get_calls
    /\ \A k \in 6..8 :
           /\ Len(SeriesOf(timings, PipelineStages[k]))
                  >= Len(SeriesOf(timings, "9_cache_storage"))
           /\ Len(SeriesOf(timings, PipelineStages[k])) <= misses

\* An invocation that missed and stored was followed by one that hit and
\* took one tick: the map holds the two stages of the hit, the second with
\* the sample of the hit; the series of these two stages hold two samples
\* and those of the other seven the sample of the miss.
C31_Witness ==
    /\ forward_pc = "idle"
    /\ forward_trace = <<"cache.get">>
    /\ hits = 1
    /\ misses = 1
    /\ current_run = DictSet(DictSet(EmptyDict, "1_schema_retrieval", 0),
                             "2_cache_lookup", 1)
    /\ timings["1_schema_retrieval"] = <<0, 0>>
    /\ timings["2_cache_lookup"] = <<0, 1>>
    /\ DOMAIN timings = {PipelineStages[k] : k \in 1..9}
    /\ \A k \in 3..9 : Len(timings[PipelineStages[k]]) = 1

=============================================================================
